---- MODULE Spec2Model ----
(***************************************************************************)
(* Model of bmad-progress: the per-project state manager (BmadProject),    *)
(* the parsers it calls on every refresh and the current-story heuristic.  *)
(*                                                                         *)
(* Two specifications:                                                     *)
(*   SpecSelect  findCurrentStory as a pure function of an epic list       *)
(*   Spec        the manager: initialize(), overlapping refresh() calls,   *)
(*               and the files, status document and git state they read    *)
(***************************************************************************)
EXTENDS Integers, Sequences, FiniteSets, TLC

VARIABLES
  selEpics,     \* SpecSelect: the epic list handed to findCurrentStory
  selResult,    \* SpecSelect: the position of the story it returned
  selPc,        \* SpecSelect: "input" before the call, "done" after
  fnArgs,       \* the arguments of the pure function a specification studies
  fnResult,     \* what it returned
  fnPc,         \* "input" before the call, "done" after
  \* the workspace
  layout,       \* the paths that exist under the workspace root
  settings,     \* ExtensionSettings: [storiesPath, gitIntegration]
  isRepo,       \* whether `git rev-parse --git-dir` succeeds in the root
  files,        \* the story files of the stories directory, in listing order
  statusDoc,    \* sprint-status.yaml
  committed,    \* per story file, its content at HEAD
  edits,        \* number of edits made to files and status document so far
  \* BmadProject
  detection,    \* this.detection
  progress,     \* this.progress: 0 for null, else a reference into heap
  heap,         \* the ProjectProgress objects created so far, by reference
  sessionStartCompletedTasks,
  gitAvailable,
  watching,     \* the file watchers are set up
  notifications,\* number of _onDidChange.fire() calls
  initPc,       \* initialize(): "new", "failed" (returned false),
                \*   "refreshing" (awaiting the initial refresh), "ready"
  active,       \* the refresh() executions in flight
  calls,        \* number of refresh() calls made so far
  \* observers
  meta,         \* per heap object: which refresh built it, from what it read
  caught,       \* number of exceptions that reached the catch of refresh()
  \* the timers and watchers of one BmadProject (SpecDebounce)
  now,          \* the clock, in ticks of 250 ms
  timeouts,     \* the pending setTimeout calls: [id, due]
  debounceTimer,\* this.debounceTimer: 0 for undefined, else a timeout id
  timeoutIds,   \* number of setTimeout calls made so far
  fileWatcher,  \* "none", "watching" or "disposed"
  changeTimes,  \* observer: the times at which a watcher event was handled
  refreshTimes, \* observer: the times at which a timeout called refresh()
  disposeTimes, \* observer: the times at which dispose() was called
  \* the extension (SpecActivate)
  workspaceFolders, \* vscode.workspace.workspaceFolders
  projects,     \* the module-level `projects`: a reference into arrays
  arrays,       \* the BmadProject[] arrays created so far, by reference
  instances,    \* the BmadProject objects created so far: [folder, run, disposed]
  runs,         \* the initializeProjects() executions: [pc, folders, i, project]
  treeProjects, \* the array handed to treeProvider.setProjects, 0 before
  statusBarProjects, \* the array handed to statusBar.setProjects, 0 before
  activatePc    \* activate(): "off", "new", "initializing", "active"

selVars == <<selEpics, selResult, selPc>>

fnVars == <<fnArgs, fnResult, fnPc>>

timerVars == <<now, timeouts, debounceTimer, timeoutIds, fileWatcher,
               changeTimes, refreshTimes, disposeTimes>>

extVars == <<workspaceFolders, projects, arrays, instances, runs,
             treeProjects, statusBarProjects, activatePc>>

hostVars == <<timerVars, extVars>>

pureVars == <<selVars, fnVars, hostVars>>

worldVars == <<layout, settings, isRepo, files, statusDoc, committed, edits>>

mgrVars == <<detection, progress, heap, sessionStartCompletedTasks, gitAvailable,
             watching, notifications, initPc, active, calls>>

obsVars == <<meta, caught>>

vars == <<selEpics, selResult, selPc, fnArgs, fnResult, fnPc,
          layout, settings, isRepo, files, statusDoc, committed, edits,
          detection, progress, heap, sessionStartCompletedTasks, gitAvailable,
          watching, notifications, initPc, active, calls,
          meta, caught,
          now, timeouts, debounceTimer, timeoutIds, fileWatcher,
          changeTimes, refreshTimes, disposeTimes,
          workspaceFolders, projects, arrays, instances, runs,
          treeProjects, statusBarProjects, activatePc>>

(***************************************************************************)
(* Bounds                                                                  *)
(***************************************************************************)
\* epics in a list handed to findCurrentStory
MaxEpics == 2
\* stories in such a list, all epics together
MaxStories == 3
\* modification timestamps are 0..MaxTime
MaxTime == 2
\* edits to the files and the status document
MaxEdits == 1
\* refresh() calls, the one of initialize() included
MaxCalls == 2
\* refresh() executions in flight at once
MaxOverlap == 2
\* SpecPercent: checkboxes of a story, an epic or a project
MaxTasks == 40
\* SpecTasks: lines of a story file
MaxLines == 4
\* SpecGit: story files handed to getTasksSinceCommit
MaxGitFiles == 2
\* SpecGit: completed checkboxes of a file, now or at HEAD
MaxChecked == 2
\* SpecStatus: keys of a development_status mapping
MaxStatusKeys == 2
\* SpecAggregate: story files listed, subfolders included
MaxListed == 2

\* SpecDebounce: the clock moves in ticks of TickMs up to MaxNow milliseconds,
\* and setTimeout is called at most MaxTimeouts times
TickMs == 250

MaxNow == 1500

MaxTimeouts == 3

\* SpecActivate: initializeProjects() executions, that of activate() included
MaxRuns == 3

(***************************************************************************)
(* findCurrentStory (BmadProject)                                          *)
(***************************************************************************)

\* new Date(0): the initial value of latestModified
EpochTime == 0

\* "no story": the null returned when nothing matches (a position no story has)
NoStory == [e |-> 0, s |-> 0]

priorityOrderInProgressFirst == <<"in-progress", "review", "ready-for-dev">>

priorityOrder == <<"review", "in-progress", "ready-for-dev">>

IsSkippedEpicCancelledOnly(epic) == epic.bmadStatus = "cancelled"

\* the `continue` of both passes
IsSkippedEpic(epic) ==
  epic.bmadStatus = "cancelled" \/ epic.bmadStatus = "deprecated"

StoryAt(epics, pos) == epics[pos.e].stories[pos.s]

\* The positions the two nested loops (for epic of epics / for story of
\* epic.stories) visit from (i, j) on, in order; skipped epics contribute none.
RECURSIVE VisitFrom(_, _, _)
VisitFrom(epics, i, j) ==
  IF i > Len(epics) THEN <<>>
  ELSE IF IsSkippedEpic(epics[i]) \/ j > Len(epics[i].stories)
    THEN VisitFrom(epics, i + 1, 1)
    ELSE <<[e |-> i, s |-> j]>> \o VisitFrom(epics, i, j + 1)

\* One iteration of the outer loop over priorityOrder: the first visited story
\* whose bmadStatus is `status`.
RECURSIVE FirstWithStatus(_, _, _, _)
FirstWithStatus(epics, visit, status, k) ==
  IF k > Len(visit) THEN NoStory
  ELSE IF StoryAt(epics, visit[k]).bmadStatus = status THEN visit[k]
  ELSE FirstWithStatus(epics, visit, status, k + 1)

RECURSIVE PriorityPass(_, _, _)
PriorityPass(epics, visit, p) ==
  IF p > Len(priorityOrder) THEN NoStory
  ELSE LET hit == FirstWithStatus(epics, visit, priorityOrder[p], 1)
       IN IF hit # NoStory THEN hit ELSE PriorityPass(epics, visit, p + 1)

\* The fallback loop with its two locals currentStory and latestModified.
RECURSIVE FallbackPass(_, _, _, _, _)
FallbackPass(epics, visit, k, currentStory, latestModified) ==
  IF k > Len(visit) THEN currentStory
  ELSE LET story == StoryAt(epics, visit[k])
       IN IF story.taskStatus = "in-progress" /\ story.lastModified > latestModified
            THEN FallbackPass(epics, visit, k + 1, visit[k], story.lastModified)
            ELSE FallbackPass(epics, visit, k + 1, currentStory, latestModified)

findCurrentStory(epics) ==
  LET visit == VisitFrom(epics, 1, 1)
      hit == PriorityPass(epics, visit, 1)
  IN IF hit # NoStory THEN hit
     ELSE FallbackPass(epics, visit, 1, NoStory, EpochTime)

(***************************************************************************)
(* detectBmadStructure (parser/detector.ts)                                *)
(* `exists` is the set of paths, relative to the workspace root, for which *)
(* pathExists answers true; `override` is settings.storiesPath.            *)
(***************************************************************************)

RECURSIVE FirstExisting(_, _, _)
FirstExisting(exists, paths, k) ==
  IF k > Len(paths) THEN ""
  ELSE IF paths[k] \in exists THEN paths[k]
  ELSE FirstExisting(exists, paths, k + 1)

\* no fallback: an empty path when no candidate exists
findStoriesPathNoFallback(exists, version) ==
  FirstExisting(exists,
    IF version = "v6"
      THEN <<"_bmad-output/implementation-artifacts", "_bmad-output/stories",
             "docs/sprint-artifacts", "docs/stories">>
      ELSE <<"docs/stories", "stories",
             "_bmad-output/implementation-artifacts", "_bmad-output/stories">>, 1)

findStoriesPath(exists, version) ==
  LET possiblePaths ==
        IF version = "v6"
          THEN <<"_bmad-output/implementation-artifacts", "_bmad-output/stories",
                 "docs/sprint-artifacts", "docs/stories">>
          ELSE <<"docs/stories", "stories",
                 "_bmad-output/implementation-artifacts", "_bmad-output/stories">>
      hit == FirstExisting(exists, possiblePaths, 1)
  IN IF hit # "" THEN hit ELSE possiblePaths[1]

findEpicsPath(exists) ==
  LET possiblePaths ==
        <<"_bmad-output/project-planning-artifacts", "_bmad-output",
          "docs/sprint-artifacts", "docs/epics">>
      hit == FirstExisting(exists, possiblePaths, 1)
  IN IF hit # "" THEN hit ELSE possiblePaths[1]

\* settingsOverride.trim() !== '' : the blank overrides of the model
IsBlank(str) == str \in {"", " "}

\* only the first naming convention is probed
V6CandidatesDotOnly == <<".bmad/bmm">>

\* v6Candidates
V6Candidates == <<".bmad/bmm", "_bmad/bmm">>

\* detectBmadStructure after the override check: the markers, in order
DetectMarkers(exists) ==
  LET v6Path == FirstExisting(exists, V6Candidates, 1)
      alt == FirstExisting(exists,
               <<"stories", "docs/sprint-artifacts", "_bmad-output/stories">>, 1)
  IN IF v6Path # ""
       THEN [version |-> "v6", storiesPath |-> findStoriesPath(exists, "v6"),
             configPath |-> v6Path, epicsPath |-> findEpicsPath(exists)]
     ELSE IF "_bmad-output/stories" \in exists
       THEN [version |-> "v6", storiesPath |-> "_bmad-output/stories",
             configPath |-> "", epicsPath |-> "_bmad-output"]
     ELSE IF ".bmad-core" \in exists
       THEN [version |-> "v4", storiesPath |-> findStoriesPath(exists, "v4"),
             configPath |-> ".bmad-core", epicsPath |-> ""]
     ELSE IF "docs/stories" \in exists
       THEN [version |-> "quickflow", storiesPath |-> "docs/stories",
             configPath |-> "", epicsPath |-> ""]
     ELSE IF alt # ""
       THEN [version |-> "quickflow", storiesPath |-> alt,
             configPath |-> "", epicsPath |-> ""]
     ELSE [version |-> "unknown", storiesPath |-> "",
           configPath |-> "", epicsPath |-> ""]

\* the override is only used when no marker is found
OverrideWinsAfterMarkers(exists, override) ==
  /\ ~IsBlank(override)
  /\ override \in exists
  /\ DetectMarkers(exists).version = "unknown"

\* `settingsOverride && settingsOverride.trim() !== ''` and pathExists
OverrideWins(exists, override) == ~IsBlank(override) /\ override \in exists

detectBmadStructure(exists, override) ==
  IF OverrideWins(exists, override)
    THEN [version |-> "quickflow", storiesPath |-> override,
          configPath |-> "", epicsPath |-> ""]
    ELSE DetectMarkers(exists)

(***************************************************************************)
(* Maps (JavaScript Map): a sequence of [k, v] in insertion order; set on  *)
(* an existing key keeps its place.                                        *)
(***************************************************************************)

MapHas(m, k) == \E i \in 1..Len(m) : m[i].k = k

MapGet(m, k, default) ==
  IF MapHas(m, k) THEN m[CHOOSE i \in 1..Len(m) : m[i].k = k].v ELSE default

MapSet(m, k, v) ==
  IF MapHas(m, k)
    THEN [i \in 1..Len(m) |-> IF m[i].k = k THEN [k |-> k, v |-> v] ELSE m[i]]
    ELSE Append(m, [k |-> k, v |-> v])

(***************************************************************************)
(* parseSprintStatus (parser/sprintStatusParser.ts)                        *)
(* A status document is [kind, dev, goals]: kind "absent" (no file),       *)
(* "malformed" (yaml.load throws, or yields null) or "valid"; dev is        *)
(* the development_status mapping in document order, each key given by the *)
(* shape the three key tests see: form "epic" for ^(hs-)?epic-<n>$, "story"*)
(* for ^(hs-)?<n>-<m>..., with retro for keys containing 'retrospective';  *)
(* goals are the "Epic <n>: ..." / "Goal: ..." comment pairs.              *)
(***************************************************************************)

VALID_STORY_STATUSES ==
  {"backlog", "drafted", "ready-for-dev", "in-progress", "review", "done", "deprecated"}

VALID_EPIC_STATUSES ==
  {"backlog", "in-progress", "done", "contexted", "cancelled", "deprecated"}

\* the value parseSprintStatus resolves to when it returns null
NullSprintStatus ==
  [isNull |-> TRUE, epicStatuses |-> <<>>, storyStatuses |-> <<>>, epicGoals |-> <<>>]

RECURSIVE DevStatusLoop(_, _, _, _)
DevStatusLoop(dev, i, epicStatuses, storyStatuses) ==
  IF i > Len(dev) THEN [epicStatuses |-> epicStatuses, storyStatuses |-> storyStatuses]
  ELSE LET entry == dev[i]
       IN IF entry.form = "epic"
            THEN DevStatusLoop(dev, i + 1,
                   IF entry.value \in VALID_EPIC_STATUSES
                     THEN MapSet(epicStatuses, [hs |-> entry.hs, n |-> entry.n], entry.value)
                     ELSE epicStatuses,
                   storyStatuses)
          ELSE IF entry.retro
            THEN DevStatusLoop(dev, i + 1, epicStatuses, storyStatuses)
          ELSE IF entry.form = "story"
            THEN DevStatusLoop(dev, i + 1, epicStatuses,
                   IF entry.value \in VALID_STORY_STATUSES
                     THEN MapSet(storyStatuses,
                                 [hs |-> entry.hs, n |-> entry.n, m |-> entry.m],
                                 entry.value)
                     ELSE storyStatuses)
          ELSE DevStatusLoop(dev, i + 1, epicStatuses, storyStatuses)

\* /\d/
IsDigit(ch) == ch \in {"0", "1", "2", "3", "4", "5", "6", "7", "8", "9"}

\* the length of the run of digits of str that starts at position i: (\d+)
RECURSIVE DigitRun(_, _)
DigitRun(str, i) ==
  IF i <= Len(str) /\ IsDigit(str[i]) THEN 1 + DigitRun(str, i + 1) ELSE 0

DigitValue(ch) ==
  CASE ch = "0" -> 0 [] ch = "1" -> 1 [] ch = "2" -> 2 [] ch = "3" -> 3
    [] ch = "4" -> 4 [] ch = "5" -> 5 [] ch = "6" -> 6 [] ch = "7" -> 7
    [] ch = "8" -> 8 [] ch = "9" -> 9

\* the number a run of digits written without leading zeros stands for; the
\* identifiers built from it are compared as these numbers
RECURSIVE NumberOf(_)
NumberOf(digits) ==
  IF digits = <<>> THEN 0
  ELSE 10 * NumberOf(SubSeq(digits, 1, Len(digits) - 1)) + DigitValue(digits[Len(digits)])

\* str has `word` at position i
HasAt(str, word, i) ==
  /\ i + Len(word) - 1 <= Len(str)
  /\ \A j \in 1..Len(word) : str[i + j - 1] = word[j]

\* key.startsWith(word)
StartsWith(str, word) == HasAt(str, word, 1)

\* key.includes(word)
Includes(str, word) == \E i \in 1..Len(str) : HasAt(str, word, i)

\* the tests of the loop over development_status applied to one key:
\* /^(?:hs-)?epic-(\d+)$/, key.includes('retrospective'), /^(hs-)?(\d+)-(\d+)/
KeyShape(key) ==
  LET hs == StartsWith(key, <<"h", "s", "-">>)
      at == IF hs THEN 4 ELSE 1
      epicDigits == DigitRun(key, at + 5)
      isEpic == /\ HasAt(key, <<"e", "p", "i", "c", "-">>, at)
                /\ epicDigits > 0
                /\ at + 5 + epicDigits = Len(key) + 1
      first == DigitRun(key, at)
      second == DigitRun(key, at + first + 1)
      isStory == /\ first > 0
                 /\ HasAt(key, <<"-">>, at + first)
                 /\ second > 0
      retro == Includes(key, <<"r", "e", "t", "r", "o", "s", "p", "e", "c", "t", "i", "v", "e">>)
  IN IF isEpic
       THEN [form |-> "epic", hs |-> hs, retro |-> retro,
             n |-> NumberOf(SubSeq(key, at + 5, Len(key))), m |-> 0]
     ELSE IF isStory
       THEN [form |-> "story", hs |-> hs, retro |-> retro,
             n |-> NumberOf(SubSeq(key, at, at + first - 1)),
             m |-> NumberOf(SubSeq(key, at + first + 1, at + first + second))]
     ELSE [form |-> "other", hs |-> hs, retro |-> retro, n |-> 0, m |-> 0]

\* the retrospective test is left out
DevStatusEntriesNoRetro(pairs) ==
  [i \in 1..Len(pairs) |->
     LET shape == KeyShape(pairs[i].key)
     IN [form |-> shape.form, hs |-> shape.hs, n |-> shape.n, m |-> shape.m,
         retro |-> FALSE, value |-> pairs[i].value]]

\* Object.entries(devStatus): the keys as the loop tests see them
DevStatusEntries(pairs) ==
  [i \in 1..Len(pairs) |->
     LET shape == KeyShape(pairs[i].key)
     IN [form |-> shape.form, hs |-> shape.hs, n |-> shape.n, m |-> shape.m,
         retro |-> shape.retro, value |-> pairs[i].value]]

\* defined for content that yaml.load turns into a mapping
parseSprintStatusContent(doc) ==
  LET maps == DevStatusLoop(doc.dev, 1, <<>>, <<>>)
  IN [isNull |-> FALSE,
      epicStatuses |-> maps.epicStatuses,
      storyStatuses |-> maps.storyStatuses,
      epicGoals |-> doc.goals]

\* The try block holds the read and the parse; the catch returns null for
\* whatever was thrown in either.
parseSprintStatus(doc) ==
  IF doc.kind = "absent" THEN [threw |-> FALSE, value |-> NullSprintStatus]
  ELSE IF doc.kind = "malformed" THEN [threw |-> FALSE, value |-> NullSprintStatus]
  ELSE [threw |-> FALSE, value |-> parseSprintStatusContent(doc)]

(***************************************************************************)
(* Number arithmetic (IEEE 754 binary64, round to nearest, ties to even),  *)
(* for the operations the percentage uses.  Long integers are written in   *)
(* limbs of LimbBits bits, most significant first.  A quotient is          *)
(* [w, m]: m = <<a1, a2, a3>> is the 53-bit significand followed by a zero *)
(* bit (2^53 <= m < 2^54) and the value is m * 2^-w.  A product is [w, p]  *)
(* with p = <<p0, p1, p2, p3>> and value p * 2^-w.                         *)
(***************************************************************************)

\* the number of significand bits of a Number
SignificandBits == 53

\* limb size: three limbs hold a significand and the bit after it
LimbBits == 18

LimbBase == 2^LimbBits

\* the limbs <<a1, a2, a3>> of m + 2 * carryIn, renormalised when it reaches 2^54
AddUlp(a1, a2, a3, up, w) ==
  LET s3 == a3 + (IF up THEN 2 ELSE 0)
      s2 == a2 + (s3 \div LimbBase)
      s1 == a1 + (s2 \div LimbBase)
  IN IF s1 = LimbBase
       THEN [w |-> w - 1, m |-> <<LimbBase \div 2, 0, 0>>]
       ELSE [w |-> w, m |-> <<s1, s2 % LimbBase, s3 % LimbBase>>]

\* the zero binary digits of rem/den before its first 1, and rem scaled by them
RECURSIVE LeadingZeros(_, _, _)
LeadingZeros(rem, den, k) ==
  IF 2 * rem >= den THEN [k |-> k, rem |-> rem]
  ELSE LeadingZeros(2 * rem, den, k + 1)

\* num / den for integers 0 < num <= den < 2^13: the first 54 binary digits
\* of the quotient from its leading 1, rounded to 53
NumberDivide(num, den) ==
  IF num = den
    THEN [w |-> SignificandBits, m |-> <<LimbBase \div 2, 0, 0>>]
    ELSE LET z  == LeadingZeros(num, den, 0)
             q1 == (z.rem * LimbBase) \div den
             r1 == (z.rem * LimbBase) % den
             q2 == (r1 * LimbBase) \div den
             r2 == (r1 * LimbBase) % den
             q3 == (r2 * LimbBase) \div den
             r3 == (r2 * LimbBase) % den
             guard == q3 % 2
             odd == (q3 \div 2) % 2
         IN AddUlp(q1, q2, q3 - guard, guard = 1 /\ (r3 # 0 \/ odd = 1),
                   z.k + 1 + SignificandBits)

\* x * factor for a quotient x and an integer 64 <= factor < 128: the exact
\* product has 60 or 61 bits and is rounded to its first 53
NumberTimes(x, factor) ==
  LET t3 == x.m[3] * factor
      t2 == x.m[2] * factor + (t3 \div LimbBase)
      t1 == x.m[1] * factor + (t2 \div LimbBase)
      p3 == t3 % LimbBase
      p2 == t2 % LimbBase
      p1 == t1 % LimbBase
      p0 == t1 \div LimbBase
      drop == IF p0 < 64 THEN 7 ELSE 8
      low == p3 % (2^drop)
      guard == low \div (2^(drop - 1))
      sticky == low % (2^(drop - 1)) # 0
      odd == (p3 \div (2^drop)) % 2
      up == guard = 1 /\ (sticky \/ odd = 1)
      s3 == p3 - low + (IF up THEN 2^drop ELSE 0)
      s2 == p2 + (s3 \div LimbBase)
      s1 == p1 + (s2 \div LimbBase)
      s0 == p0 + (s1 \div LimbBase)
  IN [w |-> x.w, p |-> <<s0, s1 % LimbBase, s2 % LimbBase, s3 % LimbBase>>]

\* Math.round(y) for a product y: floor(y + 0.5), computed exactly
MathRound(y) ==
  LET top == y.p[1] * 4 + (y.p[2] \div (2^(LimbBits - 2)))
      n == y.w - (SignificandBits - 1)
      whole == IF n > 9 THEN 0 ELSE top \div (2^n)
      half == IF n > 10 THEN 0 ELSE (top \div (2^(n - 1))) % 2
  IN whole + half

(***************************************************************************)
(* parseTasksFromLines, countCompleted, countTotal (the story parser)      *)
(* A line is a sequence of characters.  The task tree is kept as the       *)
(* sequence of TaskItems in creation order, each with the index of the     *)
(* TaskItem whose subtasks array it was pushed to (0: the top-level        *)
(* array); arrays keep push order.                                         *)
(***************************************************************************)

\* \s, for the characters lines are made of here
IsWhitespace(ch) == ch \in {" ", "\t"}

\* the longest prefix matched by \s*
RECURSIVE LeadingWhitespace(_, _)
LeadingWhitespace(line, n) ==
  IF n < Len(line) /\ IsWhitespace(line[n + 1])
    THEN LeadingWhitespace(line, n + 1)
    ELSE n

\* String.prototype.trim
RECURSIVE Trim(_)
Trim(str) ==
  IF str = <<>> THEN str
  ELSE IF IsWhitespace(Head(str)) THEN Trim(Tail(str))
  ELSE IF IsWhitespace(str[Len(str)]) THEN Trim(SubSeq(str, 1, Len(str) - 1))
  ELSE str

NoMatch == [matched |-> FALSE, indent |-> 0, mark |-> " ", text |-> <<>>]

\* (.+): at least one character after '] '
MinTextLength == 1

\* (.*) in place of (.+): a line with nothing after '] ' would match
LineLengthWithoutText(n) == n + 6

\* the least length of a line that has n characters of indent
MinLineLength(n) == n + 6 + MinTextLength

\* line.match(CHECKBOX_PATTERN) for /^(\s*)- \[([ xX])\] (.+)$/: the groups.
\* \s* is greedy and '-' is no whitespace, so there is one way to match.
\* No character of a line is a line terminator, so (.+) takes the rest.
MatchCheckbox(line) ==
  LET n == LeadingWhitespace(line, 0)
  IN IF /\ Len(line) >= MinLineLength(n)
        /\ line[n + 1] = "-"
        /\ line[n + 2] = " "
        /\ line[n + 3] = "["
        /\ line[n + 4] \in {" ", "x", "X"}
        /\ line[n + 5] = "]"
        /\ line[n + 6] = " "
       THEN [matched |-> TRUE, indent |-> n, mark |-> line[n + 4],
             text |-> SubSeq(line, n + 7, Len(line))]
       ELSE NoMatch

\* match[2].toLowerCase() === 'x'
IsCompletedMark(mark) == mark \in {"x", "X"}

\* a sibling of equal indent would stay on the stack and become the parent
StackClosesDeeperOnly(top, indent) == top.indent > indent

\* `stack[stack.length - 1].indent >= indent`: the entry is popped
StackCloses(top, indent) == top.indent >= indent

\* the while loop that pops the stack
RECURSIVE PopStack(_, _)
PopStack(stack, indent) ==
  IF stack # <<>> /\ StackCloses(stack[Len(stack)], indent)
    THEN PopStack(SubSeq(stack, 1, Len(stack) - 1), indent)
    ELSE stack

\* the for loop of parseTasksFromLines, from line i
RECURSIVE TaskLoop(_, _, _, _)
TaskLoop(lines, i, tasks, stack) ==
  IF i > Len(lines) THEN tasks
  ELSE LET match == MatchCheckbox(lines[i])
       IN IF ~match.matched THEN TaskLoop(lines, i + 1, tasks, stack)
          ELSE LET popped == PopStack(stack, match.indent)
                   task == [text |-> Trim(match.text),
                            completed |-> IsCompletedMark(match.mark),
                            line |-> i,
                            parent |-> IF popped = <<>> THEN 0
                                       ELSE popped[Len(popped)].task]
                   added == Append(tasks, task)
               IN TaskLoop(lines, i + 1, added,
                           Append(popped, [indent |-> match.indent,
                                           task |-> Len(added)]))

parseTasksFromLines(lines) == TaskLoop(lines, 1, <<>>, <<>>)

\* the array a TaskItem's subtasks (or, for 0, the top-level tasks) form
Subtasks(tasks, parent) == {k \in 1..Len(tasks) : tasks[k].parent = parent}

\* a count that does not descend into subtasks
countTotalTopLevel(tasks, parent) == Cardinality(Subtasks(tasks, parent))

RECURSIVE SumOver(_, _, _)
RECURSIVE countTotal(_, _)
\* countTotal(tasks): one per task plus countTotal(task.subtasks)
countTotal(tasks, parent) ==
  SumOver(Subtasks(tasks, parent), tasks, "total")

\* countCompleted(tasks): one per completed task plus countCompleted(subtasks)
RECURSIVE countCompleted(_, _)
countCompleted(tasks, parent) ==
  SumOver(Subtasks(tasks, parent), tasks, "completed")

\* the loop of countTotal / countCompleted over one array
SumOver(array, tasks, what) ==
  IF array = {} THEN 0
  ELSE LET k == CHOOSE x \in array : \A y \in array : x <= y
           own == IF what = "total" \/ tasks[k].completed THEN 1 ELSE 0
           below == IF what = "total" THEN countTotal(tasks, k)
                    ELSE countCompleted(tasks, k)
       IN own + below + SumOver(array \ {k}, tasks, what)

(***************************************************************************)
(* Story files and parseStoriesDirectory (the story parser)                *)
(* A directory entry is [kind, shape, epic, story, idMatch, name, heading,  *)
(* readable, completed, total, mtime, files].  For a file (kind "file"),   *)
(* shape is what the tests on its name give (NameShape): "numbered" for    *)
(* <epic>-<story>-<slug>.md with its numbers in epic and story, "plain"    *)
(* for another .md name, "skipped" for a name of SKIP_PATTERNS, "other"    *)
(* without .md; idMatch is <<n, m>> or <<n>> when the base name holds      *)
(* 'story<n>-<m>' or 'story<n>', else <<>>; `name` is the base name.  Its  *)
(* checkbox tree                                                           *)
(* has `total` tasks of which `completed` are checked, heading is <<n, m>> *)
(* when the first of its first ten lines to name a story reads 'Story      *)
(* <n>.<m>' (ContentStoryId) and <<>> when none does, and readable is      *)
(* false when readFile or stat fails.                                      *)
(* For a directory (kind "dir"), shape is "epic" when its name holds       *)
(* 'epic<n>', epic is n, and files are the entries it lists.               *)
(***************************************************************************)

\* Math.round((completed / total) * 100), 0 when total is 0
Percentage(completed, total) ==
  IF total > 0
    THEN IF completed = 0 THEN 0
         ELSE MathRound(NumberTimes(NumberDivide(completed, total), 100))
    ELSE 0

getTaskStatus(completed, total) ==
  IF total = 0 THEN "not-started"
  ELSE IF completed = total THEN "completed"
  ELSE IF completed > 0 THEN "in-progress"
  ELSE "not-started"

UpperCaseLetters ==
  <<"A", "B", "C", "D", "E", "F", "G", "H", "I", "J", "K", "L", "M",
    "N", "O", "P", "Q", "R", "S", "T", "U", "V", "W", "X", "Y", "Z">>

LowerCaseLetters ==
  <<"a", "b", "c", "d", "e", "f", "g", "h", "i", "j", "k", "l", "m",
    "n", "o", "p", "q", "r", "s", "t", "u", "v", "w", "x", "y", "z">>

\* the /i flag of a pattern whose letters are written in lower case: the
\* text is matched with its letters in lower case
Lower(str) ==
  [i \in 1..Len(str) |->
     IF \E k \in 1..26 : UpperCaseLetters[k] = str[i]
       THEN LowerCaseLetters[CHOOSE k \in 1..26 : UpperCaseLetters[k] = str[i]]
       ELSE str[i]]

\* name.endsWith('.md')
EndsWithMd(name) == Len(name) >= 3 /\ HasAt(name, <<".", "m", "d">>, Len(name) - 2)

\* path.basename(filePath, path.extname(filePath)) of a .md name
BaseName(name) == SubSeq(name, 1, Len(name) - 3)

\* SKIP_PATTERNS.some(pattern => pattern.test(name))
IsSkipped(name) ==
  LET str == Lower(name)
  IN \/ StartsWith(str, <<"t", "e", "c", "h", "-", "s", "p", "e", "c">>)
     \/ StartsWith(str, <<"s", "p", "r", "i", "n", "t", "-", "s", "t", "a", "t", "u", "s">>)
     \/ StartsWith(str, <<"i", "n", "d", "e", "x", ".">>)
     \/ Includes(str, <<".", "c", "o", "n", "t", "e", "x", "t", ".">>)
     \/ StartsWith(str, <<"r", "e", "a", "d", "m", "e">>)

\* name.match(STORY_FILE_PATTERN): /^(\d+)-(\d+)-(.+)\.md$/
StoryFileMatch(name) ==
  LET first == DigitRun(name, 1)
      second == DigitRun(name, first + 2)
      found == /\ first > 0
               /\ HasAt(name, <<"-">>, first + 1)
               /\ second > 0
               /\ HasAt(name, <<"-">>, first + second + 2)
               /\ Len(name) >= first + second + 2 + 1 + 3
               /\ EndsWithMd(name)
  IN IF found
       THEN [found |-> TRUE,
             epic |-> NumberOf(SubSeq(name, 1, first)),
             story |-> NumberOf(SubSeq(name, first + 2, first + second + 1))]
       ELSE [found |-> FALSE, epic |-> 0, story |-> 0]

\* the match of /<word>[_-]?(\d+)[_-]?(\d+)?/ at position p of str:
\* [found, first, second], second 0 - 1 when the group is unset
WordNumbersAt(str, word, p) ==
  LET isSep(k) == k <= Len(str) /\ str[k] \in {"_", "-"}
      a == p + Len(word) + (IF isSep(p + Len(word)) THEN 1 ELSE 0)
      first == DigitRun(str, a)
      b == a + first + (IF isSep(a + first) THEN 1 ELSE 0)
      second == DigitRun(str, b)
  IN IF HasAt(str, word, p) /\ first > 0
       THEN [found |-> TRUE,
             first |-> NumberOf(SubSeq(str, a, a + first - 1)),
             second |-> IF second > 0 THEN NumberOf(SubSeq(str, b, b + second - 1))
                        ELSE 0 - 1]
       ELSE [found |-> FALSE, first |-> 0, second |-> 0 - 1]

\* str.match of such a pattern: the leftmost match
WordNumbers(str, word) ==
  LET hits == {p \in 1..Len(str) : WordNumbersAt(str, word, p).found}
  IN IF hits = {} THEN [found |-> FALSE, first |-> 0, second |-> 0 - 1]
     ELSE WordNumbersAt(str, word, CHOOSE p \in hits : \A q \in hits : p <= q)

\* fileName.match(STORY_ID_PATTERN): /story[_-]?(\d+)[_-]?(\d+)?/i
StoryIdMatch(base) == WordNumbers(Lower(base), <<"s", "t", "o", "r", "y">>)

\* name.match(EPIC_ID_PATTERN): /epic[_-]?(\d+)/i
EpicIdMatch(name) == WordNumbers(Lower(name), <<"e", "p", "i", "c">>)

\* what parseStoriesDirectory, parseEpicFolder and extractStoryId test on the
\* name of a file
NameShape(name) ==
  LET fileMatch == StoryFileMatch(name)
      idMatch == IF EndsWithMd(name) THEN StoryIdMatch(BaseName(name))
                 ELSE StoryIdMatch(name)
  IN [shape |-> IF ~EndsWithMd(name) THEN "other"
                ELSE IF IsSkipped(name) THEN "skipped"
                ELSE IF fileMatch.found THEN "numbered"
                ELSE "plain",
      epic |-> fileMatch.epic,
      story |-> fileMatch.story,
      idMatch |-> IF ~idMatch.found THEN <<>>
                  ELSE IF idMatch.second >= 0 THEN <<idMatch.first, idMatch.second>>
                  ELSE <<idMatch.first>>]

\* what parseStoriesDirectory tests on the name of a directory
DirShape(name) ==
  LET epicMatch == EpicIdMatch(name)
  IN [shape |-> IF epicMatch.found THEN "epic" ELSE "other",
      epic |-> epicMatch.first,
      story |-> 0,
      idMatch |-> <<>>]

\* the length of the run of whitespace of str that starts at position i: \s+
RECURSIVE WhitespaceRun(_, _)
WhitespaceRun(str, i) ==
  IF i <= Len(str) /\ IsWhitespace(str[i]) THEN 1 + WhitespaceRun(str, i + 1) ELSE 0

\* line.match(/story\s+(\d+\.?\d*)/i) at position p: the numbers of
\* contentMatch[1], <<n, m>> for '<n>.<m>', <<n>> for '<n>', <<n, 0 - 1>>
\* for '<n>.', and <<>> without a match
ContentMatchAt(line, p) ==
  LET str == Lower(line)
      gap == WhitespaceRun(str, p + 5)
      a == p + 5 + gap
      first == DigitRun(str, a)
      dot == HasAt(str, <<".">>, a + first)
      second == IF dot THEN DigitRun(str, a + first + 1) ELSE 0
      n == NumberOf(SubSeq(str, a, a + first - 1))
  IN IF HasAt(str, <<"s", "t", "o", "r", "y">>, p) /\ gap > 0 /\ first > 0
       THEN IF second > 0
              THEN <<n, NumberOf(SubSeq(str, a + first + 1, a + first + second))>>
            ELSE IF dot THEN <<n, 0 - 1>>
            ELSE <<n>>
       ELSE <<>>

\* the loop of extractStoryId over lines.slice(0, 10): the first line that
\* matches, at its leftmost match
RECURSIVE ContentStoryId(_, _)
ContentStoryId(lines, i) ==
  IF i > Len(lines) \/ i > 10 THEN <<>>
  ELSE LET hits == {p \in 1..Len(lines[i]) : ContentMatchAt(lines[i], p) # <<>>}
       IN IF hits # {}
            THEN ContentMatchAt(lines[i], CHOOSE p \in hits : \A q \in hits : p <= q)
            ELSE ContentStoryId(lines, i + 1)

\* A listing as it is on disk: [name, isDir, lines, readable, mtime, files],
\* lines being text.split(/\r?\n/) of a file.  The entries are what the loops
\* over readDirectory, and parseStoryFile on the text of each file, make of it.
RECURSIVE DirectoryEntries(_)
DirectoryEntries(listing) ==
  [i \in 1..Len(listing) |->
     LET raw == listing[i]
         shape == IF raw.isDir THEN DirShape(raw.name) ELSE NameShape(raw.name)
         tasks == parseTasksFromLines(raw.lines)
     IN [kind |-> IF raw.isDir THEN "dir" ELSE "file",
         shape |-> shape.shape,
         epic |-> shape.epic,
         story |-> shape.story,
         idMatch |-> shape.idMatch,
         name |-> IF ~raw.isDir /\ EndsWithMd(raw.name) THEN BaseName(raw.name)
                  ELSE raw.name,
         heading |-> ContentStoryId(raw.lines, 1),
         readable |-> raw.readable,
         completed |-> countCompleted(tasks, 0),
         total |-> countTotal(tasks, 0),
         mtime |-> raw.mtime,
         files |-> DirectoryEntries(raw.files)]]

\* the storyId strings: '<n>.<m>' (dotted), '<n>' (single), '<n>.' (dot), or
\* the base file name
StoryId(form, n, m, name) == [form |-> form, n |-> n, m |-> m, name |-> name]

\* STORY_ID_PATTERN on the base name, else 'Story <n>.<m>' in the first ten
\* lines, else the base name
extractStoryId(file) ==
  LET found == IF file.idMatch # <<>> THEN file.idMatch ELSE file.heading
  IN IF found = <<>> THEN StoryId("filename", 0, 0, file.name)
     ELSE IF Len(found) = 1 THEN StoryId("single", found[1], 0, <<>>)
     ELSE IF found[2] < 0 THEN StoryId("dot", found[1], 0, <<>>)
     ELSE StoryId("dotted", found[1], found[2], <<>>)

\* a file that cannot be read gives a story without tasks
parseStoryFileUnreadableEmpty(path, file, bmadStatus) ==
  <<[filePath |-> path,
     storyId |-> extractStoryId(file),
     completedCount |-> IF file.readable THEN file.completed ELSE 0,
     totalCount |-> IF file.readable THEN file.total ELSE 0,
     percentage |-> IF file.readable THEN Percentage(file.completed, file.total) ELSE 0,
     taskStatus |-> IF file.readable THEN getTaskStatus(file.completed, file.total)
                    ELSE "not-started",
     bmadStatus |-> bmadStatus,
     lastModified |-> file.mtime]>>

\* <<>> for null
parseStoryFile(path, file, bmadStatus) ==
  IF ~file.readable THEN <<>>
  ELSE <<[filePath |-> path,
          storyId |-> extractStoryId(file),
          completedCount |-> file.completed,
          totalCount |-> file.total,
          percentage |-> Percentage(file.completed, file.total),
          taskStatus |-> getTaskStatus(file.completed, file.total),
          bmadStatus |-> bmadStatus,
          lastModified |-> file.mtime]>>

\* Array.prototype.sort with a comparator a - b on keys: a stable sort.
\* The result lists the indices of `keys` in sorted order.
StableOrder(keys) ==
  LET n == Len(keys)
      Rank(i) == Cardinality({j \in 1..n :
                    keys[j] < keys[i] \/ (keys[j] = keys[i] /\ j < i)}) + 1
  IN [r \in 1..n |-> CHOOSE i \in 1..n : Rank(i) = r]

\* parseInt(aMatch[2] || aMatch[1]) for str.match(/(\d+)\.?(\d*)/), 0 without
\* a match
SortNumber(str) ==
  LET digits == {p \in 1..Len(str) : IsDigit(str[p])}
      p == CHOOSE q \in digits : \A r \in digits : q <= r
      first == DigitRun(str, p)
      q == p + first + (IF HasAt(str, <<".">>, p + first) THEN 1 ELSE 0)
      second == DigitRun(str, q)
  IN IF digits = {} THEN 0
     ELSE IF second > 0 THEN NumberOf(SubSeq(str, q, q + second - 1))
     ELSE NumberOf(SubSeq(str, p, p + first - 1))

\* the number the story comparator takes from a storyId: '<n>.<m>' gives m,
\* '<n>' gives n, a base file name gives SortNumber of it
StorySortKey(story) ==
  IF story.storyId.form = "dotted" THEN story.storyId.m
  ELSE IF story.storyId.form \in {"single", "dot"} THEN story.storyId.n
  ELSE SortNumber(story.storyId.name)

SortStories(stories) ==
  LET order == StableOrder([i \in 1..Len(stories) |-> StorySortKey(stories[i])])
  IN [r \in 1..Len(stories) |-> stories[order[r]]]

RECURSIVE SumCompleted(_)
SumCompleted(items) ==
  IF items = <<>> THEN 0 ELSE Head(items).completedCount + SumCompleted(Tail(items))

\* only the first item is counted
SumTotalFirstOnly(items) ==
  IF items = <<>> THEN 0 ELSE Head(items).totalCount

RECURSIVE SumTotal(_)
SumTotal(items) ==
  IF items = <<>> THEN 0 ELSE Head(items).totalCount + SumTotal(Tail(items))

createEpicData(id, stories, bmadStatus, goal) ==
  [id |-> id,
   goal |-> goal,
   stories |-> stories,
   completedCount |-> SumCompleted(stories),
   totalCount |-> SumTotal(stories),
   percentage |-> Percentage(SumCompleted(stories), SumTotal(stories)),
   bmadStatus |-> bmadStatus]

\* sprintStatus.storyStatuses.get(storyKey) || 'backlog' for a file whose name
\* matches STORY_FILE_PATTERN, 'backlog' for another
StoryStatusOf(file, sprintStatus) ==
  IF file.shape = "numbered"
    THEN MapGet(sprintStatus.storyStatuses,
                [hs |-> FALSE, n |-> file.epic, m |-> file.story], "backlog")
    ELSE "backlog"

\* parseEpicFolder: the loop over the entries of an epic subfolder, the i-th
\* entry of the stories directory
RECURSIVE FolderLoop(_, _, _, _, _)
FolderLoop(i, entries, j, sprintStatus, stories) ==
  IF j > Len(entries) THEN stories
  ELSE LET file == entries[j]
           storyData == parseStoryFile(100 * i + j, file,
                                       StoryStatusOf(file, sprintStatus))
       IN FolderLoop(i, entries, j + 1, sprintStatus,
            IF file.kind = "file" /\ file.shape \in {"numbered", "plain"}
              THEN stories \o storyData
              ELSE stories)

parseEpicFolder(i, entries, sprintStatus) ==
  FolderLoop(i, entries, 1, sprintStatus, <<>>)

\* the loop over the directory entries, building epicMap
RECURSIVE EntriesLoop(_, _, _, _)
EntriesLoop(entries, i, sprintStatus, epicMap) ==
  IF i > Len(entries) THEN epicMap
  ELSE LET entry == entries[i]
           epicId == [hs |-> FALSE, n |-> entry.epic]
           epicStories == parseEpicFolder(i, entry.files, sprintStatus)
           storyData == parseStoryFile(i, entry, StoryStatusOf(entry, sprintStatus))
       IN EntriesLoop(entries, i + 1, sprintStatus,
            IF entry.kind = "dir"
              THEN IF entry.shape = "epic" /\ Len(epicStories) > 0
                     THEN MapSet(epicMap, epicId,
                                 MapGet(epicMap, epicId, <<>>) \o epicStories)
                     ELSE epicMap
            ELSE IF entry.shape = "numbered" /\ storyData # <<>>
              THEN MapSet(epicMap, epicId, MapGet(epicMap, epicId, <<>>) \o storyData)
              ELSE epicMap)

\* parseInt(a.id) || 0
EpicSortKey(epic) == IF epic.id.hs THEN 0 ELSE epic.id.n

\* no epic of the status document is added
IsPlannedOnlyNever(epicMap, epicId) == FALSE

\* `if (epicMap.has(epicId)) continue`: an epic of the status document that
\* no story file gave
IsPlannedOnly(epicMap, epicId) == ~MapHas(epicMap, epicId)

\* the epics of epicMap, then those of the status document that it lacks,
\* sorted by number
EpicsOfMap(epicMap, sprintStatus) ==
  LET fromFiles ==
        [i \in 1..Len(epicMap) |->
           createEpicData(epicMap[i].k, SortStories(epicMap[i].v),
                          MapGet(sprintStatus.epicStatuses, epicMap[i].k, "backlog"),
                          MapGet(sprintStatus.epicGoals, epicMap[i].k, ""))]
      planned ==
        SelectSeq(sprintStatus.epicStatuses, LAMBDA kv : IsPlannedOnly(epicMap, kv.k))
      fromStatus ==
        [i \in 1..Len(planned) |->
           createEpicData(planned[i].k, <<>>, planned[i].v,
                          MapGet(sprintStatus.epicGoals, planned[i].k, ""))]
      epics == fromFiles \o fromStatus
      order == StableOrder([i \in 1..Len(epics) |-> EpicSortKey(epics[i])])
  IN [r \in 1..Len(epics) |-> epics[order[r]]]

\* dirOk is false when readDirectory throws (the catch leaves epicMap empty)
parseStoriesDirectory(dirOk, entries, sprintStatus) ==
  EpicsOfMap(IF dirOk THEN EntriesLoop(entries, 1, sprintStatus, <<>>) ELSE <<>>,
             sprintStatus)

\* getAllStoryFiles: the file paths of the stories of a snapshot, in order
RECURSIVE getAllStoryFiles(_)
getAllStoryFiles(epics) ==
  IF epics = <<>> THEN <<>>
  ELSE [j \in 1..Len(Head(epics).stories) |-> Head(epics).stories[j].filePath]
         \o getAllStoryFiles(Tail(epics))

(***************************************************************************)
(* getTasksSinceCommit (parser/gitIntegration.ts)                          *)
(* blobs[path] is [has, failed, completed]: whether `git show HEAD:path`   *)
(* yields a non-empty text, whether it fails because git cannot resolve    *)
(* HEAD at all (rather than because the path is not in HEAD), and the      *)
(* completed checkboxes in the text.                                       *)
(***************************************************************************)

getFileTaskDelta(file, blob) ==
  IF ~file.readable THEN 0
  ELSE IF ~blob.has THEN file.completed
  ELSE file.completed - blob.completed

RECURSIVE SumDeltas(_, _, _, _)
SumDeltas(storyFiles, k, current, blobs) ==
  IF k > Len(storyFiles) THEN 0
  ELSE getFileTaskDelta(current[storyFiles[k]], blobs[storyFiles[k]])
         + SumDeltas(storyFiles, k + 1, current, blobs)

Max(a, b) == IF a >= b THEN a ELSE b

\* the sum returned as it is
getTasksSinceCommitUnclamped(storyFiles, current, blobs) ==
  SumDeltas(storyFiles, 1, current, blobs)

getTasksSinceCommit(storyFiles, current, blobs) ==
  Max(0, SumDeltas(storyFiles, 1, current, blobs))

(***************************************************************************)
(* BmadProject: initialize(), refresh(), getProgress()                     *)
(* A refresh() execution in flight is a record [id, pc, from, malformed,   *)
(* sprintStatus, epics]: pc names the await it is suspended on ("status":  *)
(* parseSprintStatus, "stories": parseStoriesDirectory, "git":             *)
(* getTasksSinceCommit); id, from and malformed are observations (call     *)
(* number, edit count at the call, whether the status document it read was *)
(* malformed).  this.progress is a reference into heap, the ProjectProgress*)
(* objects created so far; meta[i] observes the execution that built       *)
(* heap[i]: [id, cleanAt, malformed], cleanAt being the edit count during  *)
(* the whole execution, or -1 when an edit was made while it ran.          *)
(***************************************************************************)

NullDetection ==
  [version |-> "null", storiesPath |-> "", configPath |-> "", epicsPath |-> ""]

CanRefreshAnyDetection(d) == d # NullDetection

\* refresh(): if (!this.detection || this.detection.version === 'unknown') return
CanRefresh(d) == d # NullDetection /\ d.version # "unknown"

\* initialize(): the test that makes it return false
DetectionFailed(d) == d.version = "unknown" \/ d.storiesPath = ""

NewRefresh(id) ==
  [id |-> id, pc |-> "status", from |-> edits, malformed |-> FALSE,
   sprintStatus |-> NullSprintStatus, epics |-> <<>>]

\* the object literal of refresh(): a new ProjectProgress
ProjectProgress(version, epics, tasksSinceCommit, sessionStart) ==
  LET totalTasks == SumTotal(epics)
      completedTasks == SumCompleted(epics)
  IN [version |-> version,
      epics |-> epics,
      currentStory |-> findCurrentStory(epics),
      totalTasks |-> totalTasks,
      completedTasks |-> completedTasks,
      percentage |-> Percentage(completedTasks, totalTasks),
      sessionCompletedTasks |-> Max(0, completedTasks - sessionStart),
      tasksSinceCommit |-> tasksSinceCommit]

NewProgressObjectInPlace(objects, current, snapshot) ==
  IF current = 0 THEN Append(objects, snapshot)
  ELSE [objects EXCEPT ![current] = snapshot]

\* `{ rootPath: ..., ... }`: the heap after the literal is evaluated
NewProgressObject(objects, current, snapshot) == Append(objects, snapshot)

AssignProgressIfNone(current, built) == IF current = 0 THEN built ELSE current

\* `this.progress = <the new object>`: the reference stored
AssignProgress(current, built) == built

OnRefreshErrorClears(current) == 0

\* the catch block of refresh(): this.progress after it
OnRefreshError(current) == current

\* initialize() after `await this.refresh()`: the session baseline
RecordSessionStart(ref, objects, previous) ==
  IF ref # 0 THEN objects[ref].completedTasks ELSE previous

Layouts == {{}, {"docs/stories"}}

ValidDoc ==
  [kind |-> "valid",
   dev |-> <<[form |-> "epic",  hs |-> FALSE, n |-> 3, m |-> 0, retro |-> FALSE, value |-> "backlog"],
             [form |-> "story", hs |-> FALSE, n |-> 1, m |-> 1, retro |-> FALSE, value |-> "in-progress"],
             [form |-> "epic",  hs |-> FALSE, n |-> 2, m |-> 0, retro |-> FALSE, value |-> "cancelled"],
             [form |-> "story", hs |-> FALSE, n |-> 2, m |-> 1, retro |-> FALSE, value |-> "review"]>>,
   goals |-> <<[k |-> [hs |-> FALSE, n |-> 3], v |-> "goal of epic 3"]>>]

StatusDocs ==
  {[kind |-> "absent", dev |-> <<>>, goals |-> <<>>],
   [kind |-> "malformed", dev |-> <<>>, goals |-> <<>>],
   ValidDoc}

\* 1-1-a.md and 2-1-a.md, each with its 'Story <n>.<m>' heading
InitialFiles ==
  <<[kind |-> "file", shape |-> "numbered", epic |-> 1, story |-> 1,
     idMatch |-> <<>>, name |-> <<"1", "-", "1", "-", "a">>, heading |-> <<1, 1>>,
     readable |-> TRUE, completed |-> 1, total |-> 2, mtime |-> 1, files |-> <<>>],
    [kind |-> "file", shape |-> "numbered", epic |-> 2, story |-> 1,
     idMatch |-> <<>>, name |-> <<"2", "-", "1", "-", "a">>, heading |-> <<2, 1>>,
     readable |-> TRUE, completed |-> 0, total |-> 1, mtime |-> 1, files |-> <<>>]>>

\* HEAD holds the first story file with one checkbox completed, not the second
CommittedAtHead ==
  <<[has |-> TRUE, failed |-> FALSE, completed |-> 1],
    [has |-> FALSE, failed |-> FALSE, completed |-> 0]>>

\* `git show HEAD:<path>` fails for every path: no repository, or one
\* without a commit
NoHead ==
  <<[has |-> FALSE, failed |-> TRUE, completed |-> 0],
    [has |-> FALSE, failed |-> TRUE, completed |-> 0]>>

SelIdle ==
  /\ selEpics = <<>>
  /\ selResult = NoStory
  /\ selPc = "off"

\* no pure function is under study
FnIdle ==
  /\ fnArgs = <<>>
  /\ fnResult = <<>>
  /\ fnPc = "off"

\* no timer is under study
TimerIdle ==
  /\ now = 0 /\ timeouts = {} /\ debounceTimer = 0 /\ timeoutIds = 0
  /\ fileWatcher = "none"
  /\ changeTimes = {} /\ refreshTimes = <<>> /\ disposeTimes = {}

\* the extension is not under study
ExtIdle ==
  /\ workspaceFolders = <<>> /\ projects = 0 /\ arrays = <<>> /\ instances = <<>>
  /\ runs = <<>> /\ treeProjects = 0 /\ statusBarProjects = 0 /\ activatePc = "off"

Init ==
  /\ SelIdle
  /\ FnIdle
  /\ TimerIdle
  /\ ExtIdle
  /\ layout \in Layouts
  /\ settings \in [storiesPath : {""}, gitIntegration : BOOLEAN]
  /\ isRepo \in BOOLEAN
  /\ files = InitialFiles
  /\ statusDoc = ValidDoc
  /\ committed \in {blobs \in {CommittedAtHead, NoHead} : ~isRepo => blobs = NoHead}
  /\ ~settings.gitIntegration => (isRepo /\ committed = CommittedAtHead)
  /\ edits = 0
  /\ detection = NullDetection
  /\ progress = 0
  /\ heap = <<>>
  /\ sessionStartCompletedTasks = 0
  /\ gitAvailable = FALSE
  /\ watching = FALSE
  /\ notifications = 0
  /\ initPc = "new"
  /\ active = {}
  /\ calls = 0
  /\ meta = <<>>
  /\ caught = 0

\* initialize() up to its `await this.refresh()`: detection, the git check,
\* the watchers and the call of refresh(), which runs to its first await.
\* (What it awaits before that reads only the layout and the repository.)
Initialize ==
  /\ initPc = "new"
  /\ LET d == detectBmadStructure(layout, settings.storiesPath)
     IN /\ detection' = d
        /\ IF DetectionFailed(d)
             THEN /\ initPc' = "failed"
                  /\ UNCHANGED <<gitAvailable, watching, active, calls>>
             ELSE /\ gitAvailable' = IF settings.gitIntegration THEN isRepo ELSE gitAvailable
                  /\ watching' = TRUE
                  /\ calls' = calls + 1
                  /\ active' = IF CanRefresh(d) THEN {NewRefresh(calls + 1)} ELSE {}
                  /\ initPc' = "refreshing"
  /\ UNCHANGED <<progress, heap, sessionStartCompletedTasks, notifications>>
  /\ UNCHANGED <<worldVars, pureVars, obsVars>>

\* refresh() called by the debounce timer of the watchers, by the refresh
\* command, or by whoever holds a project whose initialize() returned false
RefreshCall ==
  /\ initPc \in {"refreshing", "ready", "failed"}
  /\ calls < MaxCalls
  /\ Cardinality(active) < MaxOverlap
  /\ calls' = calls + 1
  /\ active' = IF CanRefresh(detection) THEN active \cup {NewRefresh(calls + 1)} ELSE active
  /\ UNCHANGED <<detection, progress, heap, sessionStartCompletedTasks, gitAvailable,
                 watching, notifications, initPc>>
  /\ UNCHANGED <<worldVars, pureVars, obsVars>>

AbsentDoc == [kind |-> "absent", dev |-> <<>>, goals |-> <<>>]

\* whether the directory named by detection.storiesPath exists
StoriesDirExists == detection.storiesPath \in layout

\* what readFile finds at <storiesPath>/sprint-status.yaml
StatusDocRead == IF StoriesDirExists THEN statusDoc ELSE AbsentDoc

\* parseSprintStatus resolves; parseStoriesDirectory is called
RefreshStatusDone(r) ==
  /\ r.pc = "status"
  /\ LET res == parseSprintStatus(StatusDocRead)
     IN active' = (active \ {r}) \cup
          {[r EXCEPT !.pc = "stories",
                     !.sprintStatus = res.value,
                     !.malformed = (StatusDocRead.kind = "malformed")]}
  /\ UNCHANGED <<detection, progress, heap, sessionStartCompletedTasks, gitAvailable,
                 watching, notifications, initPc, calls>>
  /\ UNCHANGED <<worldVars, pureVars, obsVars>>

\* The end of a refresh() execution: when it is the one initialize() awaits,
\* initialize() resumes, records the session start and returns true.
Finish(r, ref, objects) ==
  /\ active' = active \ {r}
  /\ IF initPc = "refreshing" /\ r.id = 1
       THEN /\ initPc' = "ready"
            /\ sessionStartCompletedTasks' =
                 RecordSessionStart(ref, objects, sessionStartCompletedTasks)
       ELSE UNCHANGED <<initPc, sessionStartCompletedTasks>>

\* a listener that runs before the assignment would read the old reference
ListenerReadsBeforeAssign(before, after) == before

\* `this._onDidChange.fire()` runs the listeners synchronously, after the
\* assignment: what getProgress() returns to a listener
ListenerReads(before, after) == after

\* `this.progress = {...}; this._onDidChange.fire()` and the return
Install(r, epics, tasksSinceCommit) ==
  LET snapshot == ProjectProgress(detection.version, epics, tasksSinceCommit,
                                  sessionStartCompletedTasks)
      objects == NewProgressObject(heap, progress, snapshot)
      ref == AssignProgress(progress, Len(objects))
  IN /\ heap' = objects
     /\ progress' = ref
     /\ notifications' = notifications + 1
     /\ meta' = Append(meta, [id |-> r.id,
                              seen |-> ListenerReads(progress, ref),
                              cleanAt |-> IF r.from = edits THEN edits ELSE -1,
                              malformed |-> r.malformed])
     /\ Finish(r, ref, objects)

\* parseStoriesDirectory resolves: the roll-ups are computed and either
\* getTasksSinceCommit is called or the snapshot is installed
RefreshStoriesDone(r) ==
  /\ r.pc = "stories"
  /\ LET epics == parseStoriesDirectory(StoriesDirExists, files, r.sprintStatus)
     IN IF settings.gitIntegration /\ gitAvailable
          THEN /\ active' = (active \ {r}) \cup
                    {[r EXCEPT !.pc = "git", !.epics = epics,
                               !.sprintStatus = NullSprintStatus]}
               /\ UNCHANGED <<progress, heap, sessionStartCompletedTasks,
                              notifications, initPc, meta>>
          ELSE Install(r, epics, 0)
  /\ UNCHANGED <<detection, gitAvailable, watching, calls>>
  /\ UNCHANGED <<worldVars, pureVars, caught>>

\* getTasksSinceCommit resolves and the snapshot is installed
RefreshGitDone(r) ==
  /\ r.pc = "git"
  /\ Install(r, r.epics,
             getTasksSinceCommit(getAllStoryFiles(r.epics), files, committed))
  /\ UNCHANGED <<detection, gitAvailable, watching, calls>>
  /\ UNCHANGED <<worldVars, pureVars, caught>>

\* what refresh() awaits rejects: the catch block logs, refresh() returns
RefreshThrow(r) ==
  /\ r.pc \in {"status", "stories", "git"}
  /\ caught' = caught + 1
  /\ progress' = OnRefreshError(progress)
  /\ Finish(r, progress', heap)
  /\ UNCHANGED <<detection, heap, gitAvailable, watching, notifications, calls>>
  /\ UNCHANGED <<worldVars, pureVars, meta>>

\* a checkbox of a story file is checked (d = 1) or unchecked (d = -1)
EditFile(f, d) ==
  /\ edits < MaxEdits
  /\ files[f].completed + d \in 0..files[f].total
  /\ files' = [files EXCEPT ![f].completed = @ + d, ![f].mtime = edits + 2]
  /\ edits' = edits + 1
  /\ UNCHANGED <<layout, settings, isRepo, statusDoc, committed>>
  /\ UNCHANGED <<mgrVars, pureVars, obsVars>>

\* sprint-status.yaml is written, replaced or removed
EditStatusDoc(doc) ==
  /\ edits < MaxEdits
  /\ doc # statusDoc
  /\ statusDoc' = doc
  /\ edits' = edits + 1
  /\ UNCHANGED <<layout, settings, isRepo, files, committed>>
  /\ UNCHANGED <<mgrVars, pureVars, obsVars>>

\* getProgress(): the object this.progress refers to, <<>> for null
getProgress == IF progress = 0 THEN <<>> ELSE <<heap[progress]>>

Next ==
  \/ Initialize
  \/ RefreshCall
  \/ \E r \in active : RefreshStatusDone(r)
  \/ \E r \in active : RefreshStoriesDone(r)
  \/ \E r \in active : RefreshGitDone(r)
  \/ \E r \in active : RefreshThrow(r)
  \/ \E f \in 1..Len(files), d \in {-1, 1} : EditFile(f, d)
  \/ \E doc \in StatusDocs : EditStatusDoc(doc)

Spec == Init /\ [][Next]_vars

(***************************************************************************)
(* SpecSelect: findCurrentStory applied to every epic list within bounds   *)
(***************************************************************************)

\* The stories of the input lists: a story in one of the three priority
\* statuses (its file not started), or a story in "backlog" whose file is in
\* progress, with every timestamp.
SelStories ==
  {[bmadStatus |-> b, taskStatus |-> "not-started", lastModified |-> MaxTime] :
      b \in {"review", "in-progress", "ready-for-dev"}}
  \cup {[bmadStatus |-> "backlog", taskStatus |-> "in-progress", lastModified |-> t] :
      t \in 0..MaxTime}

SelEpicStatuses == {"backlog", "cancelled", "deprecated"}

RECURSIVE CountStories(_)
CountStories(epics) ==
  IF epics = <<>> THEN 0 ELSE Len(Head(epics).stories) + CountStories(Tail(epics))

\* the manager is not under study in SpecSelect
MgrIdle ==
  /\ layout = {} /\ isRepo = FALSE /\ files = <<>> /\ committed = <<>> /\ edits = 0
  /\ settings = [storiesPath |-> "", gitIntegration |-> FALSE]
  /\ statusDoc = [kind |-> "absent", dev |-> <<>>, goals |-> <<>>]
  /\ detection = NullDetection /\ progress = 0 /\ heap = <<>>
  /\ sessionStartCompletedTasks = 0 /\ gitAvailable = FALSE /\ watching = FALSE
  /\ notifications = 0 /\ initPc = "off" /\ active = {} /\ calls = 0
  /\ meta = <<>> /\ caught = 0

SelInit ==
  /\ selEpics = <<>>
  /\ selResult = NoStory
  /\ selPc = "input"
  /\ FnIdle
  /\ MgrIdle
  /\ TimerIdle
  /\ ExtIdle

\* the input grows by an epic
SelAddEpic(status) ==
  /\ selPc = "input"
  /\ Len(selEpics) < MaxEpics
  /\ selEpics' = Append(selEpics, [bmadStatus |-> status, stories |-> <<>>])
  /\ UNCHANGED <<selResult, selPc, fnVars, worldVars, mgrVars, obsVars, hostVars>>

\* the last epic of the input grows by a story
SelAddStory(story) ==
  /\ selPc = "input"
  /\ selEpics # <<>>
  /\ CountStories(selEpics) < MaxStories
  /\ selEpics' = [selEpics EXCEPT ![Len(selEpics)].stories = Append(@, story)]
  /\ UNCHANGED <<selResult, selPc, fnVars, worldVars, mgrVars, obsVars, hostVars>>

\* findCurrentStory is applied to the input
SelFind ==
  /\ selPc = "input"
  /\ selResult' = findCurrentStory(selEpics)
  /\ selPc' = "done"
  /\ UNCHANGED <<selEpics, fnVars, worldVars, mgrVars, obsVars, hostVars>>

SelNext ==
  \/ \E status \in SelEpicStatuses : SelAddEpic(status)
  \/ \E story \in SelStories : SelAddStory(story)
  \/ SelFind

SpecSelect == SelInit /\ [][SelNext]_vars

(***************************************************************************)
(* Claims about findCurrentStory (checked under SpecSelect)                *)
(***************************************************************************)

SelPositions ==
  {pos \in [e : 1..Len(selEpics), s : 1..MaxStories] :
      pos.s <= Len(selEpics[pos.e].stories)}

\* the stories of epics that are neither cancelled nor deprecated
SelEligible ==
  {pos \in SelPositions : selEpics[pos.e].bmadStatus \notin {"cancelled", "deprecated"}}

SelStory(pos) == selEpics[pos.e].stories[pos.s]

\* rank of a workflow status: review > in-progress > ready-for-dev > the rest
SelRank(pos) ==
  CASE SelStory(pos).bmadStatus = "review" -> 1
    [] SelStory(pos).bmadStatus = "in-progress" -> 2
    [] SelStory(pos).bmadStatus = "ready-for-dev" -> 3
    [] OTHER -> 4

\* epic order, then story order
SelBefore(p, q) == p.e < q.e \/ (p.e = q.e /\ p.s < q.s)

SelActive == {pos \in SelEligible : SelRank(pos) <= 3}

SelInProgressFiles == {pos \in SelEligible : SelStory(pos).taskStatus = "in-progress"}

\* C1: when some story of an eligible epic is in review, in-progress or
\* ready-for-dev, the story returned is an eligible one of the highest-ranked
\* status present, and the first such in epic order then story order.
C1_PriorityWins ==
  (selPc = "done" /\ SelActive # {}) =>
     /\ selResult \in SelActive
     /\ \A q \in SelActive :
          /\ SelRank(selResult) <= SelRank(q)
          /\ (SelRank(q) = SelRank(selResult) /\ q # selResult) => SelBefore(selResult, q)

\* C1 witness: an in-progress and a ready-for-dev story come in an earlier
\* epic than a review story, and the review story is returned.
C1_Witness ==
  /\ selPc = "done"
  /\ \E p, q, r \in SelEligible :
       /\ SelStory(p).bmadStatus = "in-progress"
       /\ SelStory(r).bmadStatus = "ready-for-dev"
       /\ SelStory(q).bmadStatus = "review"
       /\ p.e < q.e /\ r.e < q.e
       /\ selResult = q

\* C2: the story returned, if any, belongs to an epic that is neither
\* cancelled nor deprecated (whichever pass returned it).
C2_NeverFromSkippedEpic ==
  (selPc = "done" /\ selResult # NoStory) =>
     /\ selResult \in SelPositions
     /\ selEpics[selResult.e].bmadStatus # "cancelled"
     /\ selEpics[selResult.e].bmadStatus # "deprecated"

\* C2 witness: the fallback pass returned a story although a deprecated epic
\* holds a more recently modified in-progress story.
C2_Witness ==
  /\ selPc = "done"
  /\ selResult \in SelPositions
  /\ SelStory(selResult).bmadStatus = "backlog"
  /\ \E pos \in SelPositions :
       /\ selEpics[pos.e].bmadStatus = "deprecated"
       /\ SelStory(pos).taskStatus = "in-progress"
       /\ SelStory(pos).lastModified > SelStory(selResult).lastModified

\* C3: with no eligible story in a priority status, the story returned is the
\* eligible in-progress file with the greatest timestamp, the first among
\* equals, and null is returned only when there is no such file.
C3_FallbackLatest ==
  (selPc = "done" /\ SelActive = {}) =>
     /\ (SelInProgressFiles = {}) => selResult = NoStory
     /\ (SelInProgressFiles # {}) =>
          /\ selResult \in SelInProgressFiles
          /\ \A q \in SelInProgressFiles :
               /\ SelStory(q).lastModified <= SelStory(selResult).lastModified
               /\ (SelStory(q).lastModified = SelStory(selResult).lastModified
                     /\ q # selResult) => SelBefore(selResult, q)

(***************************************************************************)
(* SpecPercent: the percentage of every pair completed <= total <= MaxTasks *)
(* (the same expression at story, epic and project level)                  *)
(***************************************************************************)

PctInit ==
  /\ fnArgs = [completed |-> 0, total |-> 0]
  /\ fnResult = 0
  /\ fnPc = "input"
  /\ SelIdle
  /\ MgrIdle
  /\ TimerIdle
  /\ ExtIdle

\* one more unchecked checkbox
PctAddTask ==
  /\ fnPc = "input"
  /\ fnArgs.total < MaxTasks
  /\ fnArgs' = [fnArgs EXCEPT !.total = @ + 1]
  /\ UNCHANGED <<fnResult, fnPc, selVars, worldVars, mgrVars, obsVars, hostVars>>

\* one more checkbox is checked
PctCheckTask ==
  /\ fnPc = "input"
  /\ fnArgs.completed < fnArgs.total
  /\ fnArgs' = [fnArgs EXCEPT !.completed = @ + 1]
  /\ UNCHANGED <<fnResult, fnPc, selVars, worldVars, mgrVars, obsVars, hostVars>>

\* the percentage is computed
PctCompute ==
  /\ fnPc = "input"
  /\ fnResult' = Percentage(fnArgs.completed, fnArgs.total)
  /\ fnPc' = "done"
  /\ UNCHANGED <<fnArgs, selVars, worldVars, mgrVars, obsVars, hostVars>>

PctNext ==
  \/ PctAddTask
  \/ PctCheckTask
  \/ PctCompute

SpecPercent == PctInit /\ [][PctNext]_vars

\* C12: the percentage is round(100 * completed / total) with halves rounded
\* up when total > 0, and 0 when total = 0; it is an integer in 0..100.
C12_PercentageRoundsHalfUp ==
  fnPc = "done" =>
     /\ fnResult \in 0..100
     /\ fnResult = IF fnArgs.total > 0
                     THEN (200 * fnArgs.completed + fnArgs.total) \div (2 * fnArgs.total)
                     ELSE 0

(***************************************************************************)
(* SpecTasks: parseTasksFromLines applied to every sequence of at most     *)
(* MaxLines lines drawn from TaskLines                                     *)
(***************************************************************************)

\* n spaces
Spaces(n) == [i \in 1..n |-> " "]

\* '- [<mark>] a' behind an indent
CheckboxLine(indent, mark) == indent \o <<"-", " ", "[", mark, "]", " ", "a">>

\* lines that are tasks, at several depths
WellFormedLines ==
  {CheckboxLine(Spaces(n), " ") : n \in 0..2}
  \cup {CheckboxLine(<<>>, "x"), CheckboxLine(Spaces(2), "x")}
  \cup {CheckboxLine(<<>>, "X"), CheckboxLine(<<"\t">>, " ")}

\* lines that are no tasks: two spaces in the brackets, empty brackets, no
\* space before the bracket, no space after it, no text, empty
OtherLines ==
  { <<"-", " ", "[", " ", " ", "]", " ", "a">>,
    <<"-", " ", "[", "]", " ", "a">>,
    <<"-", "[", " ", "]", " ", "a">>,
    <<"-", " ", "[", " ", "]", "a">>,
    <<"-", " ", "[", " ", "]", " ">>,
    <<>> }

TaskLines == WellFormedLines \cup OtherLines

TaskInit ==
  /\ fnArgs = <<>>
  /\ fnResult = <<>>
  /\ fnPc = "input"
  /\ SelIdle
  /\ MgrIdle
  /\ TimerIdle
  /\ ExtIdle

\* the file grows by a line
TaskAddLine(line) ==
  /\ fnPc = "input"
  /\ Len(fnArgs) < MaxLines
  /\ fnArgs' = Append(fnArgs, line)
  /\ UNCHANGED <<fnResult, fnPc, selVars, worldVars, mgrVars, obsVars, hostVars>>

\* parseTasksFromLines is applied to the lines
TaskParse ==
  /\ fnPc = "input"
  /\ fnResult' = parseTasksFromLines(fnArgs)
  /\ fnPc' = "done"
  /\ UNCHANGED <<fnArgs, selVars, worldVars, mgrVars, obsVars, hostVars>>

TaskNext ==
  \/ \E line \in TaskLines : TaskAddLine(line)
  \/ TaskParse

SpecTasks == TaskInit /\ [][TaskNext]_vars

\* the lines of the input that match the checkbox pattern
TaskLineNumbers == {i \in 1..Len(fnArgs) : MatchCheckbox(fnArgs[i]).matched}

\* the indent of the line the k-th task of the result came from
TaskIndent(k) == MatchCheckbox(fnArgs[fnResult[k].line]).indent

\* C13: countTotal of the tree is the number of lines that match the checkbox
\* pattern, countCompleted the number of those marked x or X, whatever the
\* depth of the tasks; so completed <= total.
C13_CountsMatchLines ==
  fnPc = "done" =>
     /\ countTotal(fnResult, 0) = Cardinality(TaskLineNumbers)
     /\ countCompleted(fnResult, 0) =
          Cardinality({i \in TaskLineNumbers :
                          MatchCheckbox(fnArgs[i]).mark \in {"x", "X"}})
     /\ countCompleted(fnResult, 0) <= countTotal(fnResult, 0)

\* C13 witness: a tree three levels deep, of four tasks, two of them completed
C13_Witness ==
  /\ fnPc = "done"
  /\ Len(fnResult) = 4
  /\ \E k \in 1..4 : fnResult[k].parent # 0 /\ fnResult[fnResult[k].parent].parent # 0
  /\ countTotal(fnResult, 0) = 4
  /\ countCompleted(fnResult, 0) = 2

\* the tasks before task k that are still open when its line is read: of
\* smaller indent, with no task between of an indent that closes them
OpenAncestors(k) ==
  {j \in 1..(k - 1) :
     /\ TaskIndent(j) < TaskIndent(k)
     /\ \A m \in (j + 1)..(k - 1) : TaskIndent(m) > TaskIndent(j)}

\* C14: each task is a child of the most recent open earlier task of strictly
\* smaller indent, and top-level when there is none.
C14_NestingByIndent ==
  fnPc = "done" =>
     \A k \in 1..Len(fnResult) :
        fnResult[k].parent =
           IF OpenAncestors(k) = {} THEN 0
           ELSE CHOOSE j \in OpenAncestors(k) : \A i \in OpenAncestors(k) : i <= j

\* C14 witness: '- [ ] A', '  - [ ] B', '  - [x] C', '- [x] D' gives A with
\* the children B and C, and D top-level without children.
C14_Witness ==
  /\ fnPc = "done"
  /\ fnArgs = <<CheckboxLine(<<>>, " "), CheckboxLine(Spaces(2), " "),
                CheckboxLine(Spaces(2), "x"), CheckboxLine(<<>>, "x")>>
  /\ Len(fnResult) = 4
  /\ Subtasks(fnResult, 0) = {1, 4}
  /\ Subtasks(fnResult, 1) = {2, 3}
  /\ Subtasks(fnResult, 4) = {}

\* the shape of a task line: whitespace, '- [', one of space, x, X, '] ', and
\* at least one more character
IsTaskShape(line) ==
  \E n \in 0..Len(line) :
     /\ \A i \in 1..n : line[i] \in {" ", "\t"}
     /\ Len(line) >= n + 7
     /\ SubSeq(line, n + 1, n + 3) = <<"-", " ", "[">>
     /\ line[n + 4] \in {" ", "x", "X"}
     /\ SubSeq(line, n + 5, n + 6) = <<"]", " ">>

\* the tasks of a result without their line numbers
Unnumbered(tasks) ==
  [k \in 1..Len(tasks) |-> [text |-> tasks[k].text, completed |-> tasks[k].completed,
                            parent |-> tasks[k].parent]]

\* C15: a line yields a task iff it has the shape of a task line; the task is
\* completed iff its mark is x or X; the tasks carry the numbers of their
\* lines, in order; and the tree is the one the task lines alone give.
C15_TaskLineShape ==
  fnPc = "done" =>
     /\ \A i \in 1..Len(fnArgs) :
           (\E k \in 1..Len(fnResult) : fnResult[k].line = i) <=> IsTaskShape(fnArgs[i])
     /\ \A k \in 1..Len(fnResult) :
           /\ fnResult[k].completed <=>
                 fnArgs[fnResult[k].line][TaskIndent(k) + 4] \in {"x", "X"}
           /\ \A j \in 1..(k - 1) : fnResult[j].line < fnResult[k].line
     /\ Unnumbered(fnResult) =
           Unnumbered(parseTasksFromLines(SelectSeq(fnArgs, IsTaskShape)))

\* C15 witness: a line with two spaces in its brackets, a completed task, a
\* line without text and a nested task give two tasks, of lines 2 and 4.
C15_Witness ==
  /\ fnPc = "done"
  /\ Len(fnArgs) = 4
  /\ fnArgs[1] = <<"-", " ", "[", " ", " ", "]", " ", "a">>
  /\ fnArgs[3] = <<"-", " ", "[", " ", "]", " ">>
  /\ Len(fnResult) = 2
  /\ fnResult[1].line = 2 /\ fnResult[1].completed
  /\ fnResult[2].line = 4 /\ ~fnResult[2].completed /\ fnResult[2].parent = 1

(***************************************************************************)
(* SpecGit: getTasksSinceCommit applied to every set of at most            *)
(* MaxGitFiles files, each with up to MaxChecked completed checkboxes now  *)
(* and at HEAD                                                             *)
(***************************************************************************)

\* a story file as getFileTaskDelta reads it
GitFiles ==
  {[readable |-> TRUE, completed |-> n] : n \in 0..MaxChecked}
  \cup {[readable |-> FALSE, completed |-> 0]}

\* what `git show HEAD:path` yields for it
GitBlobs ==
  {[has |-> TRUE, failed |-> FALSE, completed |-> n] : n \in 0..MaxChecked}
  \cup {[has |-> FALSE, failed |-> FALSE, completed |-> 0]}

GitInit ==
  /\ fnArgs = [current |-> <<>>, blobs |-> <<>>]
  /\ fnResult = 0
  /\ fnPc = "input"
  /\ SelIdle
  /\ MgrIdle
  /\ TimerIdle
  /\ ExtIdle

\* one more story file
GitAddFile(file, blob) ==
  /\ fnPc = "input"
  /\ Len(fnArgs.current) < MaxGitFiles
  /\ fnArgs' = [current |-> Append(fnArgs.current, file),
                blobs |-> Append(fnArgs.blobs, blob)]
  /\ UNCHANGED <<fnResult, fnPc, selVars, worldVars, mgrVars, obsVars, hostVars>>

\* getTasksSinceCommit is applied to the files
GitCompute ==
  /\ fnPc = "input"
  /\ fnResult' = getTasksSinceCommit([i \in 1..Len(fnArgs.current) |-> i],
                                     fnArgs.current, fnArgs.blobs)
  /\ fnPc' = "done"
  /\ UNCHANGED <<fnArgs, selVars, worldVars, mgrVars, obsVars, hostVars>>

GitNext ==
  \/ \E file \in GitFiles, blob \in GitBlobs : GitAddFile(file, blob)
  \/ GitCompute

SpecGit == GitInit /\ [][GitNext]_vars

\* completed checkboxes of the i-th file now, minus those at HEAD (none when
\* the file is not in HEAD); a file that cannot be read counts as unchanged
GitGain(i) ==
  IF ~fnArgs.current[i].readable THEN 0
  ELSE fnArgs.current[i].completed
         - (IF fnArgs.blobs[i].has THEN fnArgs.blobs[i].completed ELSE 0)

RECURSIVE GitSum(_, _)
\* the sum of op(i) over i = 1..n, op being a gain as counted by a claim
GitSum(n, clamp) ==
  IF n = 0 THEN 0
  ELSE (IF clamp /\ GitGain(n) < 0 THEN 0 ELSE GitGain(n)) + GitSum(n - 1, clamp)

\* C16: getTasksSinceCommit returns max(0, sum over the files of (completed
\* now - completed at HEAD)), which is never negative.
C16_DeltaIsClampedSum ==
  fnPc = "done" =>
     /\ fnResult >= 0
     /\ fnResult = (IF GitSum(Len(fnArgs.current), FALSE) > 0
                      THEN GitSum(Len(fnArgs.current), FALSE) ELSE 0)

\* C16 witness: every file has fewer completed checkboxes than at HEAD, and
\* the result is 0.
C16_Witness ==
  /\ fnPc = "done"
  /\ Len(fnArgs.current) = MaxGitFiles
  /\ \A i \in 1..Len(fnArgs.current) : GitGain(i) < 0
  /\ fnResult = 0

\* C17: no file contributes a negative amount: the result is the sum of the
\* gains of the files that did not regress.
C17_NoNegativeContribution ==
  fnPc = "done" => fnResult = GitSum(Len(fnArgs.current), TRUE)

(***************************************************************************)
(* SpecDetect: detectBmadStructure applied to every set of existing paths  *)
(* among those it probes, and every override of Overrides                  *)
(***************************************************************************)

\* the paths detection probes, and one that only an override names
ProbedPaths ==
  {".bmad/bmm", "_bmad/bmm", ".bmad-core", "docs/stories", "stories",
   "docs/sprint-artifacts", "docs/epics", "_bmad-output", "_bmad-output/stories",
   "_bmad-output/implementation-artifacts",
   "_bmad-output/project-planning-artifacts", "custom"}

\* the directories that exist once path does
WithParent(path) ==
  IF path \in {"_bmad-output/stories", "_bmad-output/implementation-artifacts",
               "_bmad-output/project-planning-artifacts"}
    THEN {path, "_bmad-output"}
    ELSE {path}

\* the storiesPath setting: unset, blank, a custom directory, a probed one
Overrides == {"", " ", "custom", "docs/stories"}

DetInit ==
  /\ fnArgs = [exists |-> {}, override |-> ""]
  /\ fnResult = [version |-> "unknown", storiesPath |-> "",
                 configPath |-> "", epicsPath |-> ""]
  /\ fnPc = "input"
  /\ SelIdle
  /\ MgrIdle
  /\ TimerIdle
  /\ ExtIdle

\* a directory is created in the workspace
DetCreatePath(path) ==
  /\ fnPc = "input"
  /\ path \notin fnArgs.exists
  /\ fnArgs' = [fnArgs EXCEPT !.exists = @ \cup WithParent(path)]
  /\ UNCHANGED <<fnResult, fnPc, selVars, worldVars, mgrVars, obsVars, hostVars>>

\* the storiesPath setting is changed
DetSetOverride(override) ==
  /\ fnPc = "input"
  /\ override # fnArgs.override
  /\ fnArgs' = [fnArgs EXCEPT !.override = override]
  /\ UNCHANGED <<fnResult, fnPc, selVars, worldVars, mgrVars, obsVars, hostVars>>

\* detectBmadStructure is applied
DetDetect ==
  /\ fnPc = "input"
  /\ fnResult' = detectBmadStructure(fnArgs.exists, fnArgs.override)
  /\ fnPc' = "done"
  /\ UNCHANGED <<fnArgs, selVars, worldVars, mgrVars, obsVars, hostVars>>

DetNext ==
  \/ \E path \in ProbedPaths : DetCreatePath(path)
  \/ \E override \in Overrides : DetSetOverride(override)
  \/ DetDetect

SpecDetect == DetInit /\ [][DetNext]_vars

\* C19: without an override in effect, the version follows the order bmm
\* marker, _bmad-output/stories, .bmad-core, docs/stories, stories,
\* docs/sprint-artifacts, and is unknown with an empty stories path when none
\* of them exists; the quickflow and _bmad-output results name the path found.
C19_DetectionOrder ==
  (fnPc = "done" /\ fnArgs.override \in {"", " "}) =>
     LET has(path) == path \in fnArgs.exists
     IN IF has(".bmad/bmm") \/ has("_bmad/bmm") THEN fnResult.version = "v6"
        ELSE IF has("_bmad-output/stories")
          THEN fnResult.version = "v6" /\ fnResult.storiesPath = "_bmad-output/stories"
        ELSE IF has(".bmad-core") THEN fnResult.version = "v4"
        ELSE IF has("docs/stories")
          THEN fnResult.version = "quickflow" /\ fnResult.storiesPath = "docs/stories"
        ELSE IF has("stories")
          THEN fnResult.version = "quickflow" /\ fnResult.storiesPath = "stories"
        ELSE IF has("docs/sprint-artifacts")
          THEN /\ fnResult.version = "quickflow"
               /\ fnResult.storiesPath = "docs/sprint-artifacts"
        ELSE fnResult.version = "unknown" /\ fnResult.storiesPath = ""

\* C19 witness: the second bmm marker and .bmad-core both exist, and the
\* result is v6.
C19_Witness ==
  /\ fnPc = "done"
  /\ fnArgs.override = ""
  /\ {"_bmad/bmm", ".bmad-core"} \subseteq fnArgs.exists
  /\ ".bmad/bmm" \notin fnArgs.exists
  /\ fnResult.version = "v6"

StoriesCandidates(version) ==
  IF version = "v6"
    THEN <<"_bmad-output/implementation-artifacts", "_bmad-output/stories",
           "docs/sprint-artifacts", "docs/stories">>
    ELSE <<"docs/stories", "stories",
           "_bmad-output/implementation-artifacts", "_bmad-output/stories">>

KeyEpic == <<"e", "p", "i", "c", "-", "1">>

KeyHsEpic == <<"h", "s", "-", "e", "p", "i", "c", "-", "1", "2">>

KeyEpicRetro ==
  <<"e", "p", "i", "c", "-", "1", "-",
    "r", "e", "t", "r", "o", "s", "p", "e", "c", "t", "i", "v", "e">>

KeyStory == <<"1", "-", "2", "-", "a">>

KeyStoryBare == <<"1", "-", "2">>

KeyHsStory == <<"h", "s", "-", "1", "2", "-", "3", "-", "a">>

KeyStoryRetro ==
  <<"1", "-", "2", "-",
    "r", "e", "t", "r", "o", "s", "p", "e", "c", "t", "i", "v", "e">>

KeyOther == <<"e", "p", "i", "c", "-", "x">>

StatusKeys ==
  {KeyEpic, KeyHsEpic, KeyEpicRetro, KeyStory, KeyStoryBare, KeyHsStory,
   KeyStoryRetro, KeyOther}

\* valid for both kinds, for epics only, for stories only, for neither
StatusValues == {"done", "contexted", "review", "unknown-status"}

StatusInit ==
  /\ fnArgs = <<>>
  /\ fnResult = NullSprintStatus
  /\ fnPc = "input"
  /\ SelIdle
  /\ MgrIdle
  /\ TimerIdle
  /\ ExtIdle

\* one more `key: value` line under development_status (a mapping with a
\* repeated key is not one yaml.load accepts)
StatusAddKey(key, value) ==
  /\ fnPc = "input"
  /\ Len(fnArgs) < MaxStatusKeys
  /\ \A i \in 1..Len(fnArgs) : fnArgs[i].key # key
  /\ fnArgs' = Append(fnArgs, [key |-> key, value |-> value])
  /\ UNCHANGED <<fnResult, fnPc, selVars, worldVars, mgrVars, obsVars, hostVars>>

\* parseSprintStatusContent is applied
StatusParse ==
  /\ fnPc = "input"
  /\ fnResult' = parseSprintStatusContent(
                    [kind |-> "valid", dev |-> DevStatusEntries(fnArgs), goals |-> <<>>])
  /\ fnPc' = "done"
  /\ UNCHANGED <<fnArgs, selVars, worldVars, mgrVars, obsVars, hostVars>>

StatusNext ==
  \/ \E key \in StatusKeys, value \in StatusValues : StatusAddKey(key, value)
  \/ StatusParse

SpecStatus == StatusInit /\ [][StatusNext]_vars

\* the epic identifier a key of StatusKeys is stored under: hs, number
ExpectedEpicId ==
  (KeyEpic :> [hs |-> FALSE, n |-> 1]) @@ (KeyHsEpic :> [hs |-> TRUE, n |-> 12])

\* the story identifier a key of StatusKeys is stored under: hs, epic, story
ExpectedStoryId ==
  (KeyStory :> [hs |-> FALSE, n |-> 1, m |-> 2])
    @@ (KeyStoryBare :> [hs |-> FALSE, n |-> 1, m |-> 2])
    @@ (KeyHsStory :> [hs |-> TRUE, n |-> 12, m |-> 3])

\* the map the entries of `expected` with a value of `valid` build: each
\* identifier with the value of its last such entry
ExpectedMap(expected, valid) ==
  LET stored == {i \in 1..Len(fnArgs) :
                   fnArgs[i].key \in DOMAIN expected /\ fnArgs[i].value \in valid}
      last(i) == \A j \in stored : expected[fnArgs[j].key] = expected[fnArgs[i].key] => j <= i
  IN {<<expected[fnArgs[i].key], fnArgs[i].value>> : i \in {j \in stored : last(j)}}

\* C22: every value of the epic map is a valid epic status and every value of
\* the story map a valid story status; an entry with another value, and a
\* key containing 'retrospective', puts nothing in the maps; 'epic-<N>' is
\* stored under <N>, '<N>-<M>...' under <N>.<M>, with the hs- prefix kept.
C22_StatusMapsHoldValidValues ==
  fnPc = "done" =>
     LET entries(map) == {<<map[i].k, map[i].v>> : i \in 1..Len(map)}
     IN /\ \A i \in 1..Len(fnResult.epicStatuses) :
              fnResult.epicStatuses[i].v \in
                {"backlog", "in-progress", "done", "contexted", "cancelled", "deprecated"}
        /\ \A i \in 1..Len(fnResult.storyStatuses) :
              fnResult.storyStatuses[i].v \in
                {"backlog", "drafted", "ready-for-dev", "in-progress", "review",
                 "done", "deprecated"}
        /\ entries(fnResult.epicStatuses) =
              ExpectedMap(ExpectedEpicId, {"done", "contexted"})
        /\ entries(fnResult.storyStatuses) =
              ExpectedMap(ExpectedStoryId, {"done", "review"})
        /\ Cardinality(entries(fnResult.epicStatuses)) = Len(fnResult.epicStatuses)
        /\ Cardinality(entries(fnResult.storyStatuses)) = Len(fnResult.storyStatuses)

\* C22 witness: a story key with a valid value is stored, next to a
\* retrospective key with a valid value that is not.
C22_Witness ==
  /\ fnPc = "done"
  /\ \E i, j \in 1..Len(fnArgs) :
        /\ fnArgs[i].key = KeyStoryRetro /\ fnArgs[i].value = "done"
        /\ fnArgs[j].key = KeyHsStory /\ fnArgs[j].value = "review"
  /\ fnResult.storyStatuses = <<[k |-> [hs |-> TRUE, n |-> 12, m |-> 3], v |-> "review"]>>

(***************************************************************************)
(* SpecAggregate: parseSprintStatus, parseStoriesDirectory and the roll-up *)
(* of refresh() applied to listings of up to MaxListed files of AggFiles,  *)
(* in the stories directory or in a subfolder of it                        *)
(***************************************************************************)

StoryFile(name, lines, readable) ==
  [name |-> name, isDir |-> FALSE, lines |-> lines, readable |-> readable,
   mtime |-> 1, files |-> <<>>]

Folder(name) ==
  [name |-> name, isDir |-> TRUE, lines |-> <<>>, readable |-> TRUE,
   mtime |-> 0, files |-> <<>>]

\* '# Story 1.1'
HeadingLine == <<"#", " ", "S", "t", "o", "r", "y", " ", "1", ".", "1">>

\* '- [x] a'
CheckedLine == <<"-", " ", "[", "x", "]", " ", "a">>

\* '- [ ] b'
UncheckedLine == <<"-", " ", "[", " ", "]", " ", "b">>

\* '  - [x] c'
NestedCheckedLine == <<" ", " ", "-", " ", "[", "x", "]", " ", "c">>

NameOneTwoB == <<"1", "-", "2", "-", "b", ".", "m", "d">>

NameOneOneA == <<"1", "-", "1", "-", "a", ".", "m", "d">>

NameOneOneB == <<"1", "-", "1", "-", "b", ".", "m", "d">>

NameOneOneC == <<"1", "-", "1", "-", "c", ".", "m", "d">>

NameTwoOneA == <<"2", "-", "1", "-", "a", ".", "m", "d">>

NameReadme == <<"R", "E", "A", "D", "M", "E", ".", "m", "d">>

NameNotes == <<"n", "o", "t", "e", "s", ".", "m", "d">>

NameStoryOneThree == <<"s", "t", "o", "r", "y", "-", "1", "-", "3", ".", "m", "d">>

\* 1-2-b.md and 1-1-a.md do not name their story in the content; 1-1-b.md
\* and 1-1-c.md both read 'Story 1.1'; 2-1-a.md cannot be read
AggFiles ==
  {StoryFile(NameOneTwoB, <<CheckedLine, UncheckedLine>>, TRUE),
   StoryFile(NameOneOneA, <<UncheckedLine>>, TRUE),
   StoryFile(NameOneOneB, <<HeadingLine, CheckedLine>>, TRUE),
   StoryFile(NameOneOneC, <<HeadingLine, UncheckedLine, NestedCheckedLine>>, TRUE),
   StoryFile(NameTwoOneA, <<CheckedLine>>, FALSE),
   StoryFile(NameReadme, <<CheckedLine>>, TRUE),
   StoryFile(NameNotes, <<CheckedLine>>, TRUE),
   StoryFile(NameStoryOneThree,
             <<CheckedLine, NestedCheckedLine, UncheckedLine>>, TRUE)}

NameEpicOne == <<"e", "p", "i", "c", "-", "1">>

AggFolders == {Folder(NameEpicOne)}

KeyEpicThree == <<"e", "p", "i", "c", "-", "3">>

\* no sprint-status.yaml
AggNoDoc == [kind |-> "absent", pairs |-> <<>>, goals |-> <<>>]

\* epics 1, 3 and hs-12 and story 1.2, with a goal for epic 3
AggDoc ==
  [kind |-> "valid",
   pairs |-> <<[key |-> KeyEpicThree, value |-> "contexted"],
               [key |-> KeyEpic, value |-> "in-progress"],
               [key |-> KeyHsEpic, value |-> "backlog"],
               [key |-> KeyStory, value |-> "review"]>>,
   goals |-> <<[k |-> [hs |-> FALSE, n |-> 3], v |-> "goal of epic 3"]>>]

RECURSIVE CountListed(_)
CountListed(listing) ==
  IF listing = <<>> THEN 0
  ELSE (IF Head(listing).isDir THEN Len(Head(listing).files) ELSE 1)
         + CountListed(Tail(listing))

AggInit ==
  /\ fnArgs = [dirOk |-> TRUE, listing |-> <<>>, doc |-> AggNoDoc]
  /\ fnResult = ProjectProgress("v6", <<>>, 0, 0)
  /\ fnPc = "input"
  /\ SelIdle
  /\ MgrIdle
  /\ TimerIdle
  /\ ExtIdle

\* a .md file is created in the stories directory
AggAddFile(file) ==
  /\ fnPc = "input"
  /\ CountListed(fnArgs.listing) < MaxListed
  /\ \A i \in 1..Len(fnArgs.listing) : fnArgs.listing[i].name # file.name
  /\ fnArgs' = [fnArgs EXCEPT !.listing = Append(@, file)]
  /\ UNCHANGED <<fnResult, fnPc, selVars, worldVars, mgrVars, obsVars, hostVars>>

\* a subfolder is created in the stories directory
AggAddFolder(folder) ==
  /\ fnPc = "input"
  /\ \A i \in 1..Len(fnArgs.listing) : fnArgs.listing[i].name # folder.name
  /\ fnArgs' = [fnArgs EXCEPT !.listing = Append(@, folder)]
  /\ UNCHANGED <<fnResult, fnPc, selVars, worldVars, mgrVars, obsVars, hostVars>>

\* a .md file is created in the subfolder listed last
AggAddFolderFile(file) ==
  /\ fnPc = "input"
  /\ CountListed(fnArgs.listing) < MaxListed
  /\ fnArgs.listing # <<>>
  /\ LET last == Len(fnArgs.listing)
     IN /\ fnArgs.listing[last].isDir
        /\ \A j \in 1..Len(fnArgs.listing[last].files) :
              fnArgs.listing[last].files[j].name # file.name
        /\ fnArgs' = [fnArgs EXCEPT !.listing[last].files = Append(@, file)]
  /\ UNCHANGED <<fnResult, fnPc, selVars, worldVars, mgrVars, obsVars, hostVars>>

\* sprint-status.yaml is written
AggWriteStatus ==
  /\ fnPc = "input"
  /\ fnArgs.doc = AggNoDoc
  /\ fnArgs' = [fnArgs EXCEPT !.doc = AggDoc]
  /\ UNCHANGED <<fnResult, fnPc, selVars, worldVars, mgrVars, obsVars, hostVars>>

\* the stories directory can no longer be listed
AggFailListing ==
  /\ fnPc = "input"
  /\ fnArgs.dirOk
  /\ fnArgs' = [fnArgs EXCEPT !.dirOk = FALSE]
  /\ UNCHANGED <<fnResult, fnPc, selVars, worldVars, mgrVars, obsVars, hostVars>>

\* the status document of fnArgs as parseSprintStatus reads it
AggSprintStatus(doc) ==
  parseSprintStatus([kind |-> doc.kind, dev |-> DevStatusEntries(doc.pairs),
                     goals |-> doc.goals]).value

\* what refresh() builds from a listing and a status document
Aggregate(dirOk, listing, doc) ==
  ProjectProgress("v6",
    parseStoriesDirectory(dirOk, DirectoryEntries(listing), AggSprintStatus(doc)),
    0, 0)

\* parseSprintStatus, parseStoriesDirectory and the roll-up are applied
AggAggregate ==
  /\ fnPc = "input"
  /\ fnResult' = Aggregate(fnArgs.dirOk, fnArgs.listing, fnArgs.doc)
  /\ fnPc' = "done"
  /\ UNCHANGED <<fnArgs, selVars, worldVars, mgrVars, obsVars, hostVars>>

AggNext ==
  \/ \E file \in AggFiles : AggAddFile(file)
  \/ \E folder \in AggFolders : AggAddFolder(folder)
  \/ \E file \in AggFiles : AggAddFolderFile(file)
  \/ AggWriteStatus
  \/ AggFailListing
  \/ AggAggregate

SpecAggregate == AggInit /\ [][AggNext]_vars

\* the files of the listing a story can come from, as <<i, j>>: the i-th
\* entry of the stories directory (j = 0) or the j-th file of the subfolder
\* that is its i-th entry
AggPlaces ==
  {<<i, 0>> : i \in {k \in 1..Len(fnArgs.listing) : ~fnArgs.listing[k].isDir}}
    \cup {p \in (1..Len(fnArgs.listing)) \X (1..MaxListed) :
            /\ fnArgs.listing[p[1]].isDir
            /\ p[2] <= Len(fnArgs.listing[p[1]].files)}

AggFileAt(p) ==
  IF p[2] = 0 THEN fnArgs.listing[p[1]] ELSE fnArgs.listing[p[1]].files[p[2]]

AggPathOf(p) == IF p[2] = 0 THEN p[1] ELSE 100 * p[1] + p[2]

\* the files of the listing that are stories of epic 1: in the stories
\* directory those named 1-<m>-<slug>.md, in the folder epic-1 every .md file
\* but the README
AggStoriesOfEpicOne ==
  {p \in AggPlaces :
     IF p[2] = 0
       THEN AggFileAt(p).name \in {NameOneTwoB, NameOneOneA, NameOneOneB, NameOneOneC}
       ELSE AggFileAt(p).name # NameReadme}

\* C23: every epic of the status document's epic map is in the aggregated
\* list exactly once, with the status and goal of the document: with the
\* stories parsed from its readable story files when there are any, and
\* otherwise with no story, counts 0 and 0 and percentage 0.
C23_StatusEpicsAppear ==
  (fnPc = "done" /\ fnArgs.doc = AggDoc) =>
     LET epics == fnResult.epics
         parsed == IF fnArgs.dirOk
                     THEN {AggPathOf(p) :
                             p \in {q \in AggStoriesOfEpicOne : AggFileAt(q).readable}}
                     ELSE {}
         Listed(id, status, goal, paths) ==
           \E i \in 1..Len(epics) :
              /\ epics[i].id = id
              /\ \A k \in 1..Len(epics) : epics[k].id = id => k = i
              /\ epics[i].bmadStatus = status
              /\ epics[i].goal = goal
              /\ {epics[i].stories[j].filePath : j \in 1..Len(epics[i].stories)} = paths
              /\ Len(epics[i].stories) = Cardinality(paths)
              /\ paths = {} => /\ epics[i].completedCount = 0
                               /\ epics[i].totalCount = 0
                               /\ epics[i].percentage = 0
     IN /\ Listed([hs |-> FALSE, n |-> 3], "contexted", "goal of epic 3", {})
        /\ Listed([hs |-> TRUE, n |-> 12], "backlog", "", {})
        /\ Listed([hs |-> FALSE, n |-> 1], "in-progress", "", parsed)

\* C23 witness: with the status document and the listing readable, epic 3
\* is listed without stories and epic 1 with a story of a file.
C23_Witness ==
  /\ fnPc = "done"
  /\ fnArgs.doc = AggDoc
  /\ fnArgs.dirOk
  /\ \E i, k \in 1..Len(fnResult.epics) :
        /\ fnResult.epics[i].id = [hs |-> FALSE, n |-> 3]
        /\ fnResult.epics[i].stories = <<>>
        /\ fnResult.epics[k].id = [hs |-> FALSE, n |-> 1]
        /\ Len(fnResult.epics[k].stories) > 0

\* the stories of the aggregated list, as <<i, j>>: j-th story of the i-th epic
AggStories ==
  {s \in (1..Len(fnResult.epics)) \X (1..MaxListed) :
     s[2] <= Len(fnResult.epics[s[1]].stories)}

AggStoryAt(s) == fnResult.epics[s[1]].stories[s[2]]

\* C24: in a snapshot no two epics have the same identifier and no two
\* stories have the same identifier.
C24_UniqueIds ==
  fnPc = "done" =>
     /\ \A i, k \in 1..Len(fnResult.epics) :
           fnResult.epics[i].id = fnResult.epics[k].id => i = k
     /\ \A s, t \in AggStories :
           AggStoryAt(s).storyId = AggStoryAt(t).storyId => s = t

\* the story number in the name of a file of AggFiles; notes.md has none
AggStoryNumber ==
  (NameOneTwoB :> 2) @@ (NameOneOneA :> 1) @@ (NameOneOneB :> 1)
    @@ (NameOneOneC :> 1) @@ (NameTwoOneA :> 1) @@ (NameStoryOneThree :> 3)

\* the file a story of the aggregated list was parsed from
AggFileOf(story) ==
  AggFileAt(CHOOSE p \in AggPlaces : AggPathOf(p) = story.filePath)

\* C25: the stories of every epic are in ascending order of story number,
\* whatever the order of the listing.
C25_StoriesAscending ==
  fnPc = "done" =>
     \A s, t \in AggStories :
        (/\ s[1] = t[1]
         /\ s[2] < t[2]
         /\ AggFileOf(AggStoryAt(s)).name \in DOMAIN AggStoryNumber
         /\ AggFileOf(AggStoryAt(t)).name \in DOMAIN AggStoryNumber)
          => AggStoryNumber[AggFileOf(AggStoryAt(s)).name]
               <= AggStoryNumber[AggFileOf(AggStoryAt(t)).name]

\* C26: when listing the stories directory fails the epic list is empty,
\* with or without a status document.
C26_ListingFailureGivesNoEpics ==
  (fnPc = "done" /\ ~fnArgs.dirOk) => fnResult.epics = <<>>

\* the listing without the files that cannot be read
AggReadableOnly(listing) ==
  LET kept == SelectSeq(listing, LAMBDA e : e.isDir \/ e.readable)
  IN [i \in 1..Len(kept) |->
        [kept[i] EXCEPT !.files = SelectSeq(@, LAMBDA e : e.readable)]]

\* the epics with each story's path written as the names it is made of
AggNamed(epics, listing) ==
  LET NameAt(path) ==
        IF path < 100 THEN <<listing[path].name>>
        ELSE <<listing[path \div 100].name,
               listing[path \div 100].files[path % 100].name>>
  IN [i \in 1..Len(epics) |->
        [epics[i] EXCEPT !.stories =
           [j \in 1..Len(@) |-> [@[j] EXCEPT !.filePath = NameAt(@)]]]]

\* C27: a story file that cannot be read gives no story, and the aggregated
\* epics and totals are those of the same listing without that file.
C27_UnreadableFileContributesNothing ==
  fnPc = "done" =>
     LET without == AggReadableOnly(fnArgs.listing)
         expected == Aggregate(fnArgs.dirOk, without, fnArgs.doc)
     IN /\ \A s \in AggStories : AggFileOf(AggStoryAt(s)).readable
        /\ AggNamed(fnResult.epics, fnArgs.listing) = AggNamed(expected.epics, without)
        /\ fnResult.completedTasks = expected.completedTasks
        /\ fnResult.totalTasks = expected.totalTasks
        /\ fnResult.percentage = expected.percentage

\* C27 witness: a file that cannot be read is listed before one that can, in
\* the stories directory or in the same subfolder, and the second gave a story.
C27_Witness ==
  /\ fnPc = "done"
  /\ fnArgs.dirOk
  /\ \E p, q \in AggPlaces :
        /\ p[1] = q[1] \/ (p[2] = 0 /\ q[2] = 0)
        /\ AggPathOf(p) < AggPathOf(q)
        /\ ~AggFileAt(p).readable
        /\ \E s \in AggStories : AggStoryAt(s).filePath = AggPathOf(q)

\* the sum of a count over a list of stories or epics
RECURSIVE AggSum(_, _)
AggSum(items, count) ==
  IF items = <<>> THEN 0
  ELSE (IF count = "total" THEN Head(items).totalCount ELSE Head(items).completedCount)
         + AggSum(Tail(items), count)

\* C28: every epic's counts are the sums of its stories' counts, the
\* project's counts are the sums of its epics' counts, and completed <= total
\* holds for every story, every epic and the project.
C28_RollUpConsistent ==
  fnPc = "done" =>
     /\ \A i \in 1..Len(fnResult.epics) :
           /\ fnResult.epics[i].completedCount =
                AggSum(fnResult.epics[i].stories, "completed")
           /\ fnResult.epics[i].totalCount = AggSum(fnResult.epics[i].stories, "total")
           /\ fnResult.epics[i].completedCount <= fnResult.epics[i].totalCount
     /\ \A s \in AggStories :
           AggStoryAt(s).completedCount <= AggStoryAt(s).totalCount
     /\ fnResult.completedTasks = AggSum(fnResult.epics, "completed")
     /\ fnResult.totalTasks = AggSum(fnResult.epics, "total")
     /\ fnResult.completedTasks <= fnResult.totalTasks

\* C28 witness: an epic of two stories with tasks, some of them completed and
\* some not, next to a second epic.
C28_Witness ==
  /\ fnPc = "done"
  /\ Len(fnResult.epics) > 1
  /\ \E i \in 1..Len(fnResult.epics) :
        /\ Len(fnResult.epics[i].stories) = 2
        /\ fnResult.epics[i].stories[1].totalCount > 0
        /\ fnResult.epics[i].stories[2].totalCount > 0
        /\ fnResult.epics[i].completedCount > 0
        /\ fnResult.epics[i].completedCount < fnResult.epics[i].totalCount

(***************************************************************************)
(* SpecDebounce: the watchers, the debounce timer and dispose() of one     *)
(* BmadProject against a clock in milliseconds. A timeout runs at the      *)
(* instant it is due, before the watcher events of that instant.           *)
(***************************************************************************)

DEBOUNCE_DELAY == 500

\* clearTimeout(id) leaving the timeout pending
clearTimeoutNothing(pending, id) == pending

\* clearTimeout(id)
clearTimeout(pending, id) == {t \in pending : t.id # id}

\* clearTimeout(this.debounceTimer) under `if (this.debounceTimer)`
ClearDebounceTimer ==
  IF debounceTimer # 0 THEN clearTimeout(timeouts, debounceTimer) ELSE timeouts

\* setTimeout(callback, delay) called at the instant `at`
setTimeout(pending, id, at, delay) == pending \cup {[id |-> id, due |-> at + delay]}

\* the pending timeouts that are due
Due == {t \in timeouts : t.due <= now}

DebInit ==
  /\ SelIdle
  /\ FnIdle
  /\ MgrIdle
  /\ TimerIdle
  /\ ExtIdle

\* setupFileWatcher(), called once by initialize()
setupFileWatcher ==
  /\ fileWatcher = "none"
  /\ fileWatcher' = "watching"
  /\ UNCHANGED <<now, timeouts, debounceTimer, timeoutIds, changeTimes,
                 refreshTimes, disposeTimes>>
  /\ UNCHANGED <<selVars, fnVars, worldVars, mgrVars, obsVars, extVars>>

\* handleChange: a change, create or delete event of either watcher
handleChange ==
  /\ fileWatcher = "watching"
  /\ Due = {}
  /\ timeoutIds < MaxTimeouts
  /\ timeoutIds' = timeoutIds + 1
  /\ timeouts' = setTimeout(ClearDebounceTimer, timeoutIds + 1, now, DEBOUNCE_DELAY)
  /\ debounceTimer' = timeoutIds + 1
  /\ changeTimes' = changeTimes \cup {now}
  /\ UNCHANGED <<now, fileWatcher, refreshTimes, disposeTimes>>
  /\ UNCHANGED <<selVars, fnVars, worldVars, mgrVars, obsVars, extVars>>

\* the callback of a due timeout: this.refresh()
TimeoutRuns ==
  /\ \E t \in Due : timeouts' = timeouts \ {t}
  /\ refreshTimes' = Append(refreshTimes, now)
  /\ UNCHANGED <<now, debounceTimer, timeoutIds, fileWatcher, changeTimes,
                 disposeTimes>>
  /\ UNCHANGED <<selVars, fnVars, worldVars, mgrVars, obsVars, extVars>>

\* dispose() of a project that was initialized
dispose ==
  /\ fileWatcher = "watching"
  /\ timeouts' = ClearDebounceTimer
  /\ fileWatcher' = "disposed"
  /\ disposeTimes' = disposeTimes \cup {now}
  /\ UNCHANGED <<now, debounceTimer, timeoutIds, changeTimes, refreshTimes>>
  /\ UNCHANGED <<selVars, fnVars, worldVars, mgrVars, obsVars, extVars>>

\* the instant the clock moves to: one tick later, or the next due time if
\* that comes first
NextInstant ==
  LET tick == now + TickMs
      dues == {t.due : t \in timeouts}
  IN  IF \E d \in dues : d < tick
        THEN CHOOSE d \in dues : \A other \in dues : d <= other
        ELSE tick

\* time passes, once the timeouts that are due have run
Tick ==
  /\ Due = {}
  /\ now < MaxNow
  /\ now' = NextInstant
  /\ UNCHANGED <<timeouts, debounceTimer, timeoutIds, fileWatcher, changeTimes,
                 refreshTimes, disposeTimes>>
  /\ UNCHANGED <<selVars, fnVars, worldVars, mgrVars, obsVars, extVars>>

DebNext ==
  \/ setupFileWatcher
  \/ handleChange
  \/ TimeoutRuns
  \/ dispose
  \/ Tick

SpecDebounce == DebInit /\ [][DebNext]_vars

\* the event at e is the last of its burst: no event follows it within the delay
LastOfBurst(e) ==
  ~\E c \in changeTimes : e < c /\ c < e + DEBOUNCE_DELAY

\* dispose() was called between the instants from and to
DisposedWithin(from, to) ==
  \E d \in disposeTimes : from <= d /\ d <= to

\* the number of refreshes the timeouts started at the instant r
RefreshesAt(r) ==
  Cardinality({k \in 1..Len(refreshTimes) : refreshTimes[k] = r})

\* the instant e + DEBOUNCE_DELAY is over
DelayOver(e) ==
  \/ e + DEBOUNCE_DELAY < now
  \/ e + DEBOUNCE_DELAY = now /\ Due = {}

\* C29: at most one timeout is pending; the last event of every burst (events
\* less than DEBOUNCE_DELAY apart) is followed by exactly one refresh,
\* DEBOUNCE_DELAY after it, and no refresh starts at any other instant; once
\* dispose() was called no timeout is pending and no refresh starts.
C29_Debounce ==
  /\ Cardinality(timeouts) <= 1
  /\ \A e \in changeTimes :
       (LastOfBurst(e) /\ DelayOver(e) /\ ~DisposedWithin(e, e + DEBOUNCE_DELAY))
         => RefreshesAt(e + DEBOUNCE_DELAY) = 1
  /\ \A k \in 1..Len(refreshTimes) :
       LET r == refreshTimes[k]
       IN  /\ r - DEBOUNCE_DELAY \in changeTimes
           /\ LastOfBurst(r - DEBOUNCE_DELAY)
           /\ RefreshesAt(r) = 1
  /\ fileWatcher = "disposed" =>
       /\ timeouts = {}
       /\ \A k \in 1..Len(refreshTimes) : \A d \in disposeTimes : refreshTimes[k] <= d

\* C29 witness: a burst of two events one tick apart started one refresh,
\* DEBOUNCE_DELAY after the second; a later event set a timeout that dispose()
\* cleared, and the time it was due at has passed without a refresh.
C29_Witness ==
  /\ changeTimes = {0, TickMs, 2 * DEBOUNCE_DELAY}
  /\ refreshTimes = <<TickMs + DEBOUNCE_DELAY>>
  /\ disposeTimes = {2 * DEBOUNCE_DELAY + TickMs}
  /\ fileWatcher = "disposed"
  /\ now = 3 * DEBOUNCE_DELAY

(***************************************************************************)
(* SpecActivate: activate(), the workspace-folder-change handler and the   *)
(* initializeProjects() executions they start, which run between one       *)
(* another's awaits                                                        *)
(***************************************************************************)

\* the values of vscode.workspace.workspaceFolders; <<>> stands for
\* undefined, no folder being open
WorkspaceValues == {<<>>, <<"app">>, <<"docs">>, <<"app", "docs">>}

\* `let projects: BmadProject[] = []`, before activate() is called
ExtInit ==
  /\ SelIdle
  /\ FnIdle
  /\ MgrIdle
  /\ TimerIdle
  /\ workspaceFolders \in WorkspaceValues
  /\ arrays = << <<>> >>
  /\ projects = 1
  /\ instances = <<>>
  /\ runs = <<>>
  /\ treeProjects = 0
  /\ statusBarProjects = 0
  /\ activatePc = "new"

\* projects.forEach((p) => p.dispose())
DisposeAll(objs, list) ==
  [k \in 1..Len(objs) |->
     IF \E j \in 1..Len(list) : list[j] = k
       THEN [objs[k] EXCEPT !.disposed = TRUE]
       ELSE objs[k]]

\* the loop of execution r from folder i on, up to the next await or, past
\* the last folder, to the end: `projects` is the array ref at that moment
LoopFrom(r, folders, i, ref, objs, arrs, others) ==
  IF i <= Len(folders)
    THEN /\ instances' = Append(objs, [folder |-> folders[i], run |-> r,
                                       disposed |-> FALSE])
         /\ runs' = [others EXCEPT ![r] = [pc |-> "awaiting", folders |-> folders,
                                           i |-> i, project |-> Len(objs) + 1]]
         /\ arrays' = arrs
         /\ UNCHANGED <<treeProjects, statusBarProjects>>
    ELSE /\ instances' = objs
         /\ runs' = [others EXCEPT ![r] = [pc |-> "done", folders |-> folders,
                                           i |-> i, project |-> 0]]
         /\ arrays' = arrs
         /\ treeProjects' = ref
         /\ statusBarProjects' = ref

\* initializeProjects() from its call to its first await, or to its end when
\* no folder is open; folders is what it reads from workspaceFolders
initializeProjects(folders) ==
  LET r == Len(runs) + 1
      disposed == DisposeAll(instances, arrays[projects])
      fresh == Len(arrays) + 1
      others == Append(runs, [pc |-> "new", folders |-> folders,
                              i |-> 0, project |-> 0])
  IN  /\ projects' = fresh
      /\ IF folders = <<>>
           THEN /\ arrays' = arrays \o << <<>>, <<>>, <<>> >>
                /\ treeProjects' = fresh + 1
                /\ statusBarProjects' = fresh + 2
                /\ instances' = disposed
                /\ runs' = [others EXCEPT ![r].pc = "done"]
           ELSE LoopFrom(r, folders, 1, fresh, disposed,
                         Append(arrays, <<>>), others)

\* activate() up to `await initializeProjects(settings)`
activate ==
  /\ activatePc = "new"
  /\ activatePc' = "initializing"
  /\ initializeProjects(workspaceFolders)
  /\ UNCHANGED workspaceFolders
  /\ UNCHANGED <<selVars, fnVars, worldVars, mgrVars, obsVars, timerVars>>

\* activate() after the await: the folder-change handler is registered
activateContinues ==
  /\ activatePc = "initializing"
  /\ runs[1].pc = "done"
  /\ activatePc' = "active"
  /\ UNCHANGED <<workspaceFolders, projects, arrays, instances, runs,
                 treeProjects, statusBarProjects>>
  /\ UNCHANGED <<selVars, fnVars, worldVars, mgrVars, obsVars, timerVars>>

\* the workspace folders change while no handler is registered
FoldersChangeUnheard ==
  /\ activatePc \in {"new", "initializing"}
  /\ \E value \in WorkspaceValues \ {workspaceFolders} : workspaceFolders' = value
  /\ UNCHANGED <<projects, arrays, instances, runs, treeProjects,
                 statusBarProjects, activatePc>>
  /\ UNCHANGED <<selVars, fnVars, worldVars, mgrVars, obsVars, timerVars>>

\* onDidChangeWorkspaceFolders: the handler calls initializeProjects()
onDidChangeWorkspaceFolders ==
  /\ activatePc = "active"
  /\ Len(runs) < MaxRuns
  /\ \E value \in WorkspaceValues \ {workspaceFolders} : workspaceFolders' = value
  /\ initializeProjects(workspaceFolders')
  /\ UNCHANGED activatePc
  /\ UNCHANGED <<selVars, fnVars, worldVars, mgrVars, obsVars, timerVars>>

\* `await project.initialize()` of execution r returns: the push under
\* `if (success)`, then the next folder or the two setProjects calls
initializeReturns(r) ==
  /\ runs[r].pc = "awaiting"
  /\ \E success \in BOOLEAN :
       LoopFrom(r, runs[r].folders, runs[r].i + 1, projects, instances,
                IF success
                  THEN [arrays EXCEPT ![projects] = Append(@, runs[r].project)]
                  ELSE arrays,
                runs)
  /\ UNCHANGED <<workspaceFolders, projects, activatePc>>
  /\ UNCHANGED <<selVars, fnVars, worldVars, mgrVars, obsVars, timerVars>>

ExtNext ==
  \/ activate
  \/ activateContinues
  \/ FoldersChangeUnheard
  \/ onDidChangeWorkspaceFolders
  \/ \E r \in 1..Len(runs) : initializeReturns(r)

SpecActivate == ExtInit /\ [][ExtNext]_vars

\* every initializeProjects() execution has finished and activate() has
\* registered its handler
AllRunsFinished ==
  /\ activatePc = "active"
  /\ \A r \in 1..Len(runs) : runs[r].pc = "done"

\* the BmadProject objects of the module-level `projects`
Tracked == arrays[projects]

\* the array holds one object per folder of the latest execution's folders
\* at most, each created by that execution
BuiltByLatestRun(list) ==
  /\ \A j, k \in 1..Len(list) :
       j # k => instances[list[j]].folder # instances[list[k]].folder
  /\ \A j \in 1..Len(list) : instances[list[j]].run = Len(runs)

\* C30: once every initializeProjects() execution has finished, `projects`
\* holds at most one BmadProject per workspace folder, none of them disposed,
\* and the tree provider and the status bar hold that list, whose objects the
\* latest execution created.
C30_LatestRunWins ==
  AllRunsFinished =>
    /\ \A j, k \in 1..Len(Tracked) :
         j # k => instances[Tracked[j]].folder # instances[Tracked[k]].folder
    /\ \A j \in 1..Len(Tracked) : ~instances[Tracked[j]].disposed
    /\ arrays[treeProjects] = Tracked
    /\ arrays[statusBarProjects] = Tracked
    /\ BuiltByLatestRun(Tracked)

(***************************************************************************)
(* Claims about BmadProject (checked under Spec)                           *)
(***************************************************************************)

\* C4: when detection yields 'unknown' or an empty stories path, initialize()
\* has returned false, getProgress() is null, no refresh() execution is in
\* flight and no change notification was fired, whatever was called since.
C4_FailedInitStaysUninitialized ==
  (initPc # "new" /\ (detection.version = "unknown" \/ detection.storiesPath = "")) =>
     /\ initPc = "failed"
     /\ progress = 0 /\ heap = <<>>
     /\ active = {}
     /\ notifications = 0

\* C4 witness: initialize() returned false and refresh() was called after it
C4_Witness ==
  /\ initPc = "failed"
  /\ detection.version = "unknown"
  /\ calls > 0

\* C5: once initialize() has returned true, the snapshot getProgress() returns
\* reports sessionCompletedTasks = max(0, completedTasks - baseline); the
\* baseline is the count the initial refresh computed.
C5_SessionBaseline ==
  (initPc = "ready" /\ progress # 0) =>
     heap[progress].sessionCompletedTasks =
        Max(0, heap[progress].completedTasks - sessionStartCompletedTasks)

\* C6: two refresh() executions during which no file and no status document
\* changed, and that ran over the same contents, built equal snapshots.
C6_RefreshIdempotent ==
  \A i, j \in 1..Len(heap) :
     (meta[i].cleanAt >= 0 /\ meta[i].cleanAt = meta[j].cleanAt) => heap[i] = heap[j]

\* C7: a step in which refresh() catches an exception leaves this.progress,
\* the snapshots and the number of notifications fired as they were.
C7_FailedRefreshKeepsSnapshot ==
  [][caught' # caught =>
       /\ progress' = progress
       /\ heap' = heap
       /\ notifications' = notifications]_vars

\* C7 witness: a refresh() ended in its catch block while a snapshot was
\* installed, and that snapshot is still the one getProgress() returns.
C7_Witness ==
  /\ caught > 0
  /\ active = {}
  /\ progress # 0
  /\ Len(heap) = 1
  /\ calls = 2

\* C8: no snapshot was built by a refresh() that read a malformed status
\* document.
C8_MalformedStatusKeepsSnapshot ==
  \A i \in 1..Len(heap) : ~meta[i].malformed

\* C11: every step that installs a snapshot fires exactly one notification and
\* every notification comes from such a step; the listeners of that
\* notification read the snapshot just installed, not the one before it.
C11_NotifyAfterInstall ==
  [][(notifications' # notifications \/ Len(heap') # Len(heap)) =>
       /\ notifications' = notifications + 1
       /\ Len(heap') = Len(heap) + 1
       /\ meta'[Len(meta')].seen = Len(heap')
       /\ meta'[Len(meta')].seen = progress'
       /\ meta'[Len(meta')].seen # progress]_vars

\* C11 witness: a second refresh replaced a snapshot by a different one, fired
\* the second notification, and its listeners read the second snapshot.
C11_Witness ==
  /\ notifications = 2
  /\ Len(heap) = 2
  /\ heap[1] # heap[2]
  /\ meta[2].seen = 2
  /\ progress = 2

\* git integration is off, the root is no repository, or git cannot
\* retrieve the committed content of any file
VersionControlUnavailable ==
  \/ ~settings.gitIntegration
  \/ ~isRepo
  \/ \A i \in 1..Len(committed) : committed[i].failed

\* C18: while version control is unavailable every snapshot has
\* tasksSinceCommit = 0.
C18_UnavailableGitGivesZero ==
  VersionControlUnavailable =>
     \A i \in 1..Len(heap) : heap[i].tasksSinceCommit = 0

\* the completed checkboxes of the story files as they are now
WorldCompleted == SumDeltas([i \in 1..Len(files) |-> i], 1, files,
                            [i \in 1..Len(files) |-> [has |-> FALSE, completed |-> 0]])

\* C9: whenever refresh() executions have completed, this.progress is the
\* snapshot built by the one that completed last.
C9_LastFinisherWins ==
  heap # <<>> => (progress = Len(heap) /\ Len(meta) = Len(heap))

\* C9 witness: two overlapping executions have completed; the one called first
\* completed last and its snapshot, which does not reflect the files, has
\* replaced the snapshot of the other, which does.
C9_Witness ==
  /\ active = {}
  /\ Len(heap) = 2
  /\ progress = 2
  /\ meta[2].id < meta[1].id
  /\ heap[2].completedTasks # WorldCompleted
  /\ heap[1].completedTasks = WorldCompleted

\* C10: a ProjectProgress object, once created, keeps its field values: no
\* step changes an object of the heap.
C10_SnapshotsNeverMutated ==
  [][\A i \in 1..Len(heap) : Len(heap') >= i /\ heap'[i] = heap[i]]_vars

\* C10 witness: a snapshot was returned by getProgress(), then replaced by a
\* different one, and is still there with the values it had.
C10_Witness ==
  /\ Len(heap) = 2
  /\ progress = 2
  /\ heap[1] # heap[2]
  /\ heap[1].sessionCompletedTasks = heap[1].completedTasks
  /\ meta[1].id = 1

====
